---- MODULE Spec2Model ----
(***************************************************************************)
(* Model of the HealthAssist triage chatbot: the emergency keyword scanner *)
(* (chatbot/medical_knowledge.py), the conversation state machine          *)
(* (chatbot/states.py), the parsing and validation of the generation       *)
(* service's output (chatbot/llm_engine.py) and the per-turn orchestrator  *)
(* (chatbot/conversation_manager.py), with the reset handler of app.py.    *)
(*                                                                         *)
(* Text is modelled character by character: a Python str is a sequence of  *)
(* one-character strings.  A longer string used as an element of a text    *)
(* stands for a fixed run of prose of the source (a piece of a response    *)
(* template): it holds no whitespace at its ends, no quote, brace or       *)
(* bracket and no letter that the functions below inspect.                 *)
(***************************************************************************)
EXTENDS Naturals, Integers, Sequences, FiniteSets, TLC

VARIABLES
    context,    \* the session's conversation context (the dict the app keeps in its state)
    result,     \* what the latest call gave its caller
    last        \* what the latest call was given

vars == <<context, result, last>>

(***************************************************************************)
(* Python str primitives.                                                  *)
(***************************************************************************)

\* The ASCII upper-case letters and their lower-case forms (str.lower).
LowerOf ==
    "A" :> "a" @@ "B" :> "b" @@ "C" :> "c" @@ "D" :> "d" @@ "E" :> "e" @@
    "F" :> "f" @@ "G" :> "g" @@ "H" :> "h" @@ "I" :> "i" @@ "J" :> "j" @@
    "K" :> "k" @@ "L" :> "l" @@ "M" :> "m" @@ "N" :> "n" @@ "O" :> "o" @@
    "P" :> "p" @@ "Q" :> "q" @@ "R" :> "r" @@ "S" :> "s" @@ "T" :> "t" @@
    "U" :> "u" @@ "V" :> "v" @@ "W" :> "w" @@ "X" :> "x" @@ "Y" :> "y" @@
    "Z" :> "z"

UpperLetters == DOMAIN LowerOf

LowerLetters == {LowerOf[c] : c \in UpperLetters}

LowerChar(c) == IF c \in UpperLetters THEN LowerOf[c] ELSE c

UpperChar(c) ==
    IF c \in LowerLetters THEN CHOOSE u \in UpperLetters : LowerOf[u] = c ELSE c

\* str.lower()
str_lower(t) == [i \in 1..Len(t) |-> LowerChar(t[i])]

\* str.title(): a letter that follows a non-letter is upper-cased, a letter
\* that follows a letter is lower-cased.
str_title(t) ==
    [i \in 1..Len(t) |->
        IF i > 1 /\ t[i - 1] \in (UpperLetters \cup LowerLetters)
        THEN LowerChar(t[i])
        ELSE UpperChar(t[i])]

\* The whitespace str.strip() removes (the ASCII part).
IsSpace(c) == c \in {" ", "\n", "\t", "\r"}

RECURSIVE FirstNonSpace(_, _)
\* The first position from p on that holds no whitespace (Len(t) + 1 if none).
FirstNonSpace(t, p) ==
    IF p <= Len(t) /\ IsSpace(t[p]) THEN FirstNonSpace(t, p + 1) ELSE p

RECURSIVE LastNonSpace(_, _)
\* The last position up to p that holds no whitespace (0 if none).
LastNonSpace(t, p) ==
    IF p >= 1 /\ IsSpace(t[p]) THEN LastNonSpace(t, p - 1) ELSE p

\* str.strip() that strips nothing.
NoStrip(t) == t

\* str.strip()
str_strip(t) == SubSeq(t, FirstNonSpace(t, 1), LastNonSpace(t, Len(t)))

\* t[p:].startswith(prefix), for a 1-based position p
StartsWithAt(t, p, prefix) ==
    /\ p + Len(prefix) - 1 <= Len(t)
    /\ \A j \in 1..Len(prefix) : t[p + j - 1] = prefix[j]

\* str.startswith
StartsWith(t, prefix) == StartsWithAt(t, 1, prefix)

\* The Python test "needle in t" on two strings.
Contains(t, needle) == \E p \in 1..(Len(t) - Len(needle) + 1) : StartsWithAt(t, p, needle)

\* t[:n]
Prefix(t, n) == SubSeq(t, 1, IF n < Len(t) THEN n ELSE Len(t))

\* t[-n:]
Suffix(t, n) == SubSeq(t, IF Len(t) > n THEN Len(t) - n + 1 ELSE 1, Len(t))

RECURSIVE Join(_, _)
\* sep.join(parts)
Join(sep, parts) ==
    IF Len(parts) = 0 THEN <<>>
    ELSE IF Len(parts) = 1 THEN parts[1]
    ELSE parts[1] \o sep \o Join(sep, Tail(parts))

(***************************************************************************)
(* chatbot/medical_knowledge.py: the emergency vocabulary and its scanner. *)
(***************************************************************************)

\* EMERGENCY_KEYWORDS["cardiac"]: heart attack, cardiac arrest, chest tightness, chest pressure, crushing chest pain
KW_cardiac ==
    << <<"h", "e", "a", "r", "t", " ", "a", "t", "t", "a", "c", "k">>,
       <<"c", "a", "r", "d", "i", "a", "c", " ", "a", "r", "r", "e", "s", "t">>,
       <<"c", "h", "e", "s", "t", " ", "t", "i", "g", "h", "t", "n", "e", "s", "s">>,
       <<"c", "h", "e", "s", "t", " ", "p", "r", "e", "s", "s", "u", "r", "e">>,
       <<"c", "r", "u", "s", "h", "i", "n", "g", " ", "c", "h", "e", "s", "t", " ", "p", "a", "i", "n">> >>

\* EMERGENCY_KEYWORDS["respiratory"]: can't breathe, cannot breathe, not breathing, stopped breathing, choking, suffocating, severe difficulty breathing
KW_respiratory ==
    << <<"c", "a", "n", "'", "t", " ", "b", "r", "e", "a", "t", "h", "e">>,
       <<"c", "a", "n", "n", "o", "t", " ", "b", "r", "e", "a", "t", "h", "e">>,
       <<"n", "o", "t", " ", "b", "r", "e", "a", "t", "h", "i", "n", "g">>,
       <<"s", "t", "o", "p", "p", "e", "d", " ", "b", "r", "e", "a", "t", "h", "i", "n", "g">>,
       <<"c", "h", "o", "k", "i", "n", "g">>,
       <<"s", "u", "f", "f", "o", "c", "a", "t", "i", "n", "g">>,
       <<"s", "e", "v", "e", "r", "e", " ", "d", "i", "f", "f", "i", "c", "u", "l", "t", "y", " ", "b", "r", "e", "a", "t", "h", "i", "n", "g">> >>

\* EMERGENCY_KEYWORDS["neurological"]: stroke, face drooping, sudden numbness, sudden confusion, sudden severe headache, seizure, convulsions, unconscious, unresponsive, loss of consciousness, passed out, fainted and not waking
KW_neurological ==
    << <<"s", "t", "r", "o", "k", "e">>,
       <<"f", "a", "c", "e", " ", "d", "r", "o", "o", "p", "i", "n", "g">>,
       <<"s", "u", "d", "d", "e", "n", " ", "n", "u", "m", "b", "n", "e", "s", "s">>,
       <<"s", "u", "d", "d", "e", "n", " ", "c", "o", "n", "f", "u", "s", "i", "o", "n">>,
       <<"s", "u", "d", "d", "e", "n", " ", "s", "e", "v", "e", "r", "e", " ", "h", "e", "a", "d", "a", "c", "h", "e">>,
       <<"s", "e", "i", "z", "u", "r", "e">>,
       <<"c", "o", "n", "v", "u", "l", "s", "i", "o", "n", "s">>,
       <<"u", "n", "c", "o", "n", "s", "c", "i", "o", "u", "s">>,
       <<"u", "n", "r", "e", "s", "p", "o", "n", "s", "i", "v", "e">>,
       <<"l", "o", "s", "s", " ", "o", "f", " ", "c", "o", "n", "s", "c", "i", "o", "u", "s", "n", "e", "s", "s">>,
       <<"p", "a", "s", "s", "e", "d", " ", "o", "u", "t">>,
       <<"f", "a", "i", "n", "t", "e", "d", " ", "a", "n", "d", " ", "n", "o", "t", " ", "w", "a", "k", "i", "n", "g">> >>

\* EMERGENCY_KEYWORDS["bleeding"]: severe bleeding, uncontrollable bleeding, won't stop bleeding, hemorrhage, coughing blood, vomiting blood
KW_bleeding ==
    << <<"s", "e", "v", "e", "r", "e", " ", "b", "l", "e", "e", "d", "i", "n", "g">>,
       <<"u", "n", "c", "o", "n", "t", "r", "o", "l", "l", "a", "b", "l", "e", " ", "b", "l", "e", "e", "d", "i", "n", "g">>,
       <<"w", "o", "n", "'", "t", " ", "s", "t", "o", "p", " ", "b", "l", "e", "e", "d", "i", "n", "g">>,
       <<"h", "e", "m", "o", "r", "r", "h", "a", "g", "e">>,
       <<"c", "o", "u", "g", "h", "i", "n", "g", " ", "b", "l", "o", "o", "d">>,
       <<"v", "o", "m", "i", "t", "i", "n", "g", " ", "b", "l", "o", "o", "d">> >>

\* EMERGENCY_KEYWORDS["trauma"]: severe burn, major accident, head injury, spinal injury, broken neck
KW_trauma ==
    << <<"s", "e", "v", "e", "r", "e", " ", "b", "u", "r", "n">>,
       <<"m", "a", "j", "o", "r", " ", "a", "c", "c", "i", "d", "e", "n", "t">>,
       <<"h", "e", "a", "d", " ", "i", "n", "j", "u", "r", "y">>,
       <<"s", "p", "i", "n", "a", "l", " ", "i", "n", "j", "u", "r", "y">>,
       <<"b", "r", "o", "k", "e", "n", " ", "n", "e", "c", "k">> >>

\* EMERGENCY_KEYWORDS["toxicology"]: poisoning, overdose, swallowed poison, drug overdose
KW_toxicology ==
    << <<"p", "o", "i", "s", "o", "n", "i", "n", "g">>,
       <<"o", "v", "e", "r", "d", "o", "s", "e">>,
       <<"s", "w", "a", "l", "l", "o", "w", "e", "d", " ", "p", "o", "i", "s", "o", "n">>,
       <<"d", "r", "u", "g", " ", "o", "v", "e", "r", "d", "o", "s", "e">> >>

\* EMERGENCY_KEYWORDS["allergic"]: anaphylaxis, anaphylactic shock, severe allergic reaction, throat swelling, tongue swelling
KW_allergic ==
    << <<"a", "n", "a", "p", "h", "y", "l", "a", "x", "i", "s">>,
       <<"a", "n", "a", "p", "h", "y", "l", "a", "c", "t", "i", "c", " ", "s", "h", "o", "c", "k">>,
       <<"s", "e", "v", "e", "r", "e", " ", "a", "l", "l", "e", "r", "g", "i", "c", " ", "r", "e", "a", "c", "t", "i", "o", "n">>,
       <<"t", "h", "r", "o", "a", "t", " ", "s", "w", "e", "l", "l", "i", "n", "g">>,
       <<"t", "o", "n", "g", "u", "e", " ", "s", "w", "e", "l", "l", "i", "n", "g">> >>

\* EMERGENCY_KEYWORDS["mental_health"]: suicidal, want to kill myself, ending my life, self harm
KW_mental_health ==
    << <<"s", "u", "i", "c", "i", "d", "a", "l">>,
       <<"w", "a", "n", "t", " ", "t", "o", " ", "k", "i", "l", "l", " ", "m", "y", "s", "e", "l", "f">>,
       <<"e", "n", "d", "i", "n", "g", " ", "m", "y", " ", "l", "i", "f", "e">>,
       <<"s", "e", "l", "f", " ", "h", "a", "r", "m">> >>

\* The categories in the order of the dict literal.
EMERGENCY_KEYWORDS == << KW_cardiac, KW_respiratory, KW_neurological, KW_bleeding, KW_trauma, KW_toxicology, KW_allergic, KW_mental_health >>

RECURSIVE Flatten(_)
Flatten(lists) ==
    IF Len(lists) = 0 THEN <<>> ELSE Head(lists) \o Flatten(Tail(lists))

\* [kw for category in EMERGENCY_KEYWORDS.values() for kw in category]
ALL_EMERGENCY_KEYWORDS == Flatten(EMERGENCY_KEYWORDS)

\* The body of check_emergency_keywords(text): the listed phrases that occur
\* in the lower-cased text, in vocabulary order.
MatchedKeywords(text) ==
    LET text_lower == str_lower(text)
    IN  SelectSeq(ALL_EMERGENCY_KEYWORDS, LAMBDA keyword : Contains(text_lower, keyword))

(***************************************************************************)
(* JSON values, as Python's json module builds them.  Each kind of value   *)
(* is a record with its own field, so values of different kinds compare    *)
(* unequal.  A dict is the sequence of its (key, value) pairs in insertion *)
(* order, with no key twice.                                               *)
(***************************************************************************)

None == [t |-> "null"]

JBool(b) == [t |-> "bool", b |-> b]

JNum(n) == [t |-> "num", n |-> n]

JStr(s) == [t |-> "str", s |-> s]

JList(xs) == [t |-> "list", xs |-> xs]

JDict(kv) == [t |-> "dict", kv |-> kv]

IsStr(v) == v.t = "str"

IsDict(v) == v.t = "dict"

IsList(v) == v.t = "list"

\* Python truthiness: bool(v)
Truthy(v) ==
    CASE v.t = "null" -> FALSE
      [] v.t = "bool" -> v.b
      [] v.t = "num"  -> v.n # 0
      [] v.t = "str"  -> Len(v.s) > 0
      [] v.t = "list" -> Len(v.xs) > 0
      [] v.t = "dict" -> Len(v.kv) > 0

\* key in d
HasKey(d, key) == \E i \in 1..Len(d.kv) : d.kv[i][1] = key

\* d.get(key, default)
DictGet(d, key, default) ==
    IF HasKey(d, key)
    THEN d.kv[CHOOSE i \in 1..Len(d.kv) : d.kv[i][1] = key][2]
    ELSE default

\* d[key] = value
DictSet(d, key, value) ==
    IF HasKey(d, key)
    THEN JDict([i \in 1..Len(d.kv) |->
                    IF d.kv[i][1] = key THEN <<key, value>> ELSE d.kv[i]])
    ELSE JDict(Append(d.kv, <<key, value>>))

\* list(d): the keys of a dict
DictKeys(d) == [i \in 1..Len(d.kv) |-> d.kv[i][1]]

(***************************************************************************)
(* json.loads on the subset of JSON the model's inputs are written in:     *)
(* objects, arrays, strings with the escapes \" \\ \/ \n \t \r, integers,  *)
(* true, false and null.  A parse step returns [ok, v, p]: the value and   *)
(* the position after it.                                                  *)
(***************************************************************************)

ParseFail == [ok |-> FALSE]

ParseOk(v, p) == [ok |-> TRUE, v |-> v, p |-> p]

\* The whitespace json skips between tokens.
IsJsonWs(c) == c \in {" ", "\n", "\t", "\r"}

Digits ==
    "0" :> 0 @@ "1" :> 1 @@ "2" :> 2 @@ "3" :> 3 @@ "4" :> 4 @@
    "5" :> 5 @@ "6" :> 6 @@ "7" :> 7 @@ "8" :> 8 @@ "9" :> 9

RECURSIVE SkipWs(_, _)
SkipWs(t, p) == IF p <= Len(t) /\ IsJsonWs(t[p]) THEN SkipWs(t, p + 1) ELSE p

RECURSIVE ParseString(_, _, _)
\* The body of a string, from the position after its opening quote.
ParseString(t, p, acc) ==
    IF p > Len(t) THEN ParseFail
    ELSE IF t[p] = "\"" THEN ParseOk(acc, p + 1)
    ELSE IF t[p] \in {"\n", "\t", "\r"} THEN ParseFail
    ELSE IF t[p] = "\\"
         THEN IF p + 1 > Len(t) THEN ParseFail
              ELSE CASE t[p + 1] \in {"\"", "\\", "/"} ->
                            ParseString(t, p + 2, Append(acc, t[p + 1]))
                     [] t[p + 1] = "n" -> ParseString(t, p + 2, Append(acc, "\n"))
                     [] t[p + 1] = "t" -> ParseString(t, p + 2, Append(acc, "\t"))
                     [] t[p + 1] = "r" -> ParseString(t, p + 2, Append(acc, "\r"))
                     [] OTHER -> ParseFail
    ELSE ParseString(t, p + 1, Append(acc, t[p]))

RECURSIVE ParseDigits(_, _, _)
ParseDigits(t, p, acc) ==
    IF p <= Len(t) /\ t[p] \in DOMAIN Digits
    THEN ParseDigits(t, p + 1, 10 * acc + Digits[t[p]])
    ELSE ParseOk(acc, p)

\* An integer: -?(0|[1-9][0-9]*), not followed by a fraction or an exponent.
ParseNumber(t, p) ==
    LET Signed(neg, r) ==
            IF r.p <= Len(t) /\ t[r.p] \in {".", "e", "E"} THEN ParseFail
            ELSE ParseOk(JNum(IF neg THEN 0 - r.v ELSE r.v), r.p)
        From(neg, q) ==
            IF q > Len(t) \/ t[q] \notin DOMAIN Digits THEN ParseFail
            ELSE Signed(neg, IF t[q] = "0" THEN ParseOk(0, q + 1) ELSE ParseDigits(t, q, 0))
    IN  IF t[p] = "-" THEN From(TRUE, p + 1) ELSE From(FALSE, p)

RECURSIVE ParseValue(_, _)
RECURSIVE ParseMembers(_, _, _)
RECURSIVE ParseElements(_, _, _)

\* The members of an object, from the position of a key's opening quote.
ParseMembers(t, p, acc) ==
    LET AfterMember(d, e) ==
            IF e > Len(t) THEN ParseFail
            ELSE IF t[e] = "}" THEN ParseOk(d, e + 1)
            ELSE IF t[e] = "," THEN ParseMembers(t, SkipWs(t, e + 1), d)
            ELSE ParseFail
        WithValue(k, v) ==
            IF ~v.ok THEN ParseFail
            ELSE AfterMember(DictSet(acc, k.v, v.v), SkipWs(t, v.p))
        AfterKey(k, c) ==
            IF c > Len(t) \/ t[c] # ":" THEN ParseFail
            ELSE WithValue(k, ParseValue(t, c + 1))
        WithKey(k) == IF ~k.ok THEN ParseFail ELSE AfterKey(k, SkipWs(t, k.p))
    IN  IF p > Len(t) \/ t[p] # "\"" THEN ParseFail
        ELSE WithKey(ParseString(t, p + 1, <<>>))

\* The elements of an array, from the position of the first one.
ParseElements(t, p, acc) ==
    LET AfterElement(xs, e) ==
            IF e > Len(t) THEN ParseFail
            ELSE IF t[e] = "]" THEN ParseOk(JList(xs), e + 1)
            ELSE IF t[e] = "," THEN ParseElements(t, e + 1, xs)
            ELSE ParseFail
        WithElement(v) ==
            IF ~v.ok THEN ParseFail ELSE AfterElement(Append(acc, v.v), SkipWs(t, v.p))
    IN  WithElement(ParseValue(t, p))

ParseValue(t, p) ==
    LET Object(m) ==
            IF m <= Len(t) /\ t[m] = "}" THEN ParseOk(JDict(<<>>), m + 1)
            ELSE ParseMembers(t, m, JDict(<<>>))
        Array(q, m) ==
            IF m <= Len(t) /\ t[m] = "]" THEN ParseOk(JList(<<>>), m + 1)
            ELSE ParseElements(t, q + 1, <<>>)
        String(s) == IF s.ok THEN ParseOk(JStr(s.v), s.p) ELSE ParseFail
        At(q) ==
            IF q > Len(t) THEN ParseFail
            ELSE CASE t[q] = "{" -> Object(SkipWs(t, q + 1))
                   [] t[q] = "[" -> Array(q, SkipWs(t, q + 1))
                   [] t[q] = "\"" -> String(ParseString(t, q + 1, <<>>))
                   [] StartsWithAt(t, q, <<"t", "r", "u", "e">>) -> ParseOk(JBool(TRUE), q + 4)
                   [] StartsWithAt(t, q, <<"f", "a", "l", "s", "e">>) -> ParseOk(JBool(FALSE), q + 5)
                   [] StartsWithAt(t, q, <<"n", "u", "l", "l">>) -> ParseOk(None, q + 4)
                   [] t[q] = "-" \/ t[q] \in DOMAIN Digits -> ParseNumber(t, q)
                   [] OTHER -> ParseFail
    IN  At(SkipWs(t, p))

\* json.loads(text): the value, or a JSONDecodeError (ok = FALSE).
json_loads(text) ==
    LET Whole(r) == IF r.ok /\ SkipWs(text, r.p) > Len(text) THEN r ELSE ParseFail
    IN  Whole(ParseValue(text, 1))

(***************************************************************************)
(* chatbot/states.py: the conversation state machine.                      *)
(***************************************************************************)

\* ConversationState: the nine state names.
ConversationState ==
    { "greeting", "symptom_collection", "severity_assessment", "emergency",
      "department_recommendation", "appointment_offer", "collecting_details",
      "booking_confirmation", "completed" }

\* How a state name is spelled in the service's output.
StateSpelling ==
    [ greeting |-> <<"g", "r", "e", "e", "t", "i", "n", "g">>,
      symptom_collection |-> <<"s", "y", "m", "p", "t", "o", "m", "_", "c", "o", "l", "l", "e", "c", "t", "i", "o", "n">>,
      severity_assessment |-> <<"s", "e", "v", "e", "r", "i", "t", "y", "_", "a", "s", "s", "e", "s", "s", "m", "e", "n", "t">>,
      emergency |-> <<"e", "m", "e", "r", "g", "e", "n", "c", "y">>,
      department_recommendation |-> <<"d", "e", "p", "a", "r", "t", "m", "e", "n", "t", "_", "r", "e", "c", "o", "m", "m", "e", "n", "d", "a", "t", "i", "o", "n">>,
      appointment_offer |-> <<"a", "p", "p", "o", "i", "n", "t", "m", "e", "n", "t", "_", "o", "f", "f", "e", "r">>,
      collecting_details |-> <<"c", "o", "l", "l", "e", "c", "t", "i", "n", "g", "_", "d", "e", "t", "a", "i", "l", "s">>,
      booking_confirmation |-> <<"b", "o", "o", "k", "i", "n", "g", "_", "c", "o", "n", "f", "i", "r", "m", "a", "t", "i", "o", "n">>,
      completed |-> <<"c", "o", "m", "p", "l", "e", "t", "e", "d">> ]

\* The state a Python value names, or "<no state>" for any other value.
StateNamed(v) ==
    IF IsStr(v) /\ \E s \in ConversationState : StateSpelling[s] = v.s
    THEN CHOOSE s \in ConversationState : StateSpelling[s] = v.s
    ELSE "<no state>"

\* VALID_TRANSITIONS with emergency and completed as the ends of a conversation.
TerminalTransitions ==
    [ greeting |-> {"symptom_collection", "emergency"},
      symptom_collection |-> {"symptom_collection", "severity_assessment", "emergency"},
      severity_assessment |-> {"emergency", "department_recommendation", "symptom_collection"},
      emergency |-> {"emergency"},
      department_recommendation |-> {"appointment_offer", "symptom_collection", "emergency"},
      appointment_offer |-> {"collecting_details", "completed", "symptom_collection", "emergency"},
      collecting_details |-> {"collecting_details", "booking_confirmation", "emergency"},
      booking_confirmation |-> {"completed", "collecting_details", "emergency"},
      completed |-> {} ]

VALID_TRANSITIONS ==
    [ greeting |-> {"symptom_collection", "emergency"},
      symptom_collection |-> {"symptom_collection", "severity_assessment", "emergency"},
      severity_assessment |-> {"emergency", "department_recommendation", "symptom_collection"},
      emergency |-> {"emergency", "greeting"},
      department_recommendation |-> {"appointment_offer", "symptom_collection", "emergency"},
      appointment_offer |-> {"collecting_details", "completed", "symptom_collection", "emergency"},
      collecting_details |-> {"collecting_details", "booking_confirmation", "emergency"},
      booking_confirmation |-> {"completed", "collecting_details", "emergency"},
      completed |-> {"greeting", "symptom_collection"} ]

\* is_valid_transition without the rule that emergency is always valid.
TableOnly(current_state, next_state) ==
    /\ current_state \in DOMAIN VALID_TRANSITIONS
    /\ next_state \in VALID_TRANSITIONS[current_state]

\* is_valid_transition(current_state, next_state)
is_valid_transition(current_state, next_state) ==
    IF next_state = "emergency" THEN TRUE
    ELSE LET allowed == IF current_state \in DOMAIN VALID_TRANSITIONS
                        THEN VALID_TRANSITIONS[current_state]
                        ELSE {}
         IN  next_state \in allowed

(***************************************************************************)
(* chatbot/llm_engine.py: parsing and validation of the generation         *)
(* service's output.  A Python exception is the result [ok |-> FALSE].     *)
(***************************************************************************)

Raised == [ok |-> FALSE]

Returned(v) == [ok |-> TRUE, v |-> v]

\* The keys of the response schema.
K_response == <<"r", "e", "s", "p", "o", "n", "s", "e">>

K_extracted_symptoms == <<"e", "x", "t", "r", "a", "c", "t", "e", "d", "_", "s", "y", "m", "p", "t", "o", "m", "s">>

K_severity == <<"s", "e", "v", "e", "r", "i", "t", "y">>

K_is_emergency == <<"i", "s", "_", "e", "m", "e", "r", "g", "e", "n", "c", "y">>

K_recommended_department == <<"r", "e", "c", "o", "m", "m", "e", "n", "d", "e", "d", "_", "d", "e", "p", "a", "r", "t", "m", "e", "n", "t">>

K_intent == <<"i", "n", "t", "e", "n", "t">>

K_needs_clarification == <<"n", "e", "e", "d", "s", "_", "c", "l", "a", "r", "i", "f", "i", "c", "a", "t", "i", "o", "n">>

K_collected_info == <<"c", "o", "l", "l", "e", "c", "t", "e", "d", "_", "i", "n", "f", "o">>

K_suggested_next_state == <<"s", "u", "g", "g", "e", "s", "t", "e", "d", "_", "n", "e", "x", "t", "_", "s", "t", "a", "t", "e">>

\* Fixed prose of the module, each run of it one element of the text.
FALLBACK_TEXT ==
    << "I apologize, but I'm experiencing a technical issue right now. If you're experiencing a medical emergency, please call **911** or **112** immediately. Please try again in a moment." >>

EMERGENCY_NOTICE ==
    << "**This appears to be a medical emergency.** Please call **911** or **112** immediately for urgent care." >>

CLARIFICATION_REQUEST ==
    << "Thank you for sharing. Could you tell me more about your symptoms so I can better assist you?" >>

\* str(v) as an f-string formats it: a str is itself, None, a bool and an
\* int are spelled out, the repr of a list or dict is one opaque element.
PyFormat(v) ==
    CASE v.t = "str"  -> v.s
      [] v.t = "null" -> <<"N", "o", "n", "e">>
      [] v.t = "bool" -> IF v.b THEN <<"T", "r", "u", "e">> ELSE <<"F", "a", "l", "s", "e">>
      [] v.t = "num"  -> IF v.n \in 0..9 THEN << CHOOSE c \in DOMAIN Digits : Digits[c] = v.n >>
                         ELSE << "<int>" >>
      [] OTHER -> << "<repr>" >>

\* A fallback that carries an assessment.
FallbackAssessing ==
    JDict(<< <<K_response, JStr(FALLBACK_TEXT)>>,
             <<K_severity, JStr(<<"m", "i", "l", "d">>)>> >>)

\* _fallback_response(error_msg)
_fallback_response ==
    JDict(<< <<K_response, JStr(FALLBACK_TEXT)>>,
             <<K_extracted_symptoms, JList(<<>>)>>,
             <<K_severity, None>>,
             <<K_is_emergency, JBool(FALSE)>>,
             <<K_recommended_department, None>>,
             <<K_intent, JStr(<<"o", "t", "h", "e", "r">>)>>,
             <<K_needs_clarification, JBool(FALSE)>>,
             <<K_collected_info, JDict(<<>>)>>,
             <<K_suggested_next_state, None>> >>)

\* json_patterns of _looks_like_json
json_patterns ==
    << <<"\"", "r", "e", "s", "p", "o", "n", "s", "e", "\"", ":">>, <<"\"", "s", "e", "v", "e", "r", "i", "t", "y", "\"", ":">>, <<"\"", "e", "x", "t", "r", "a", "c", "t", "e", "d", "_", "s", "y", "m", "p", "t", "o", "m", "s", "\"", ":">>,
       <<"\"", "i", "s", "_", "e", "m", "e", "r", "g", "e", "n", "c", "y", "\"", ":">>, <<"\"", "s", "u", "g", "g", "e", "s", "t", "e", "d", "_", "n", "e", "x", "t", "_", "s", "t", "a", "t", "e", "\"", ":">> >>

\* sum(1 for p in json_patterns if p in stripped)
PatternMatches(stripped) ==
    Cardinality({i \in 1..Len(json_patterns) : Contains(stripped, json_patterns[i])})

\* _looks_like_json without the test that the text parses.
SignaturesOnly(text) == PatternMatches(str_strip(text)) >= 2

\* _looks_like_json(text), for a str
_looks_like_json(text) ==
    LET Looks(stripped) ==
            \/ /\ (StartsWith(stripped, <<"{">>) \/ StartsWith(stripped, <<"[">>))
               /\ json_loads(stripped).ok
            \/ PatternMatches(stripped) >= 2
    IN  Looks(str_strip(text))

\* ", ".join(symptoms) for whatever value the payload gave: a list must hold
\* only strings, a str is joined character by character, a dict by its keys,
\* anything else is not iterable.
JoinSymptoms(symptoms) ==
    CASE symptoms.t = "list" ->
            IF \A i \in 1..Len(symptoms.xs) : IsStr(symptoms.xs[i])
            THEN Returned(Join(<<",", " ">>, [i \in 1..Len(symptoms.xs) |-> symptoms.xs[i].s]))
            ELSE Raised
      [] symptoms.t = "str" ->
            Returned(Join(<<",", " ">>, [i \in 1..Len(symptoms.s) |-> <<symptoms.s[i]>>]))
      [] symptoms.t = "dict" -> Returned(Join(<<",", " ">>, DictKeys(symptoms)))
      [] OTHER -> Raised

\* The defaults _validate_parsed_result fills in, in the order of the dict.
ResultDefaults ==
    << <<K_extracted_symptoms, JList(<<>>)>>,
       <<K_severity, None>>,
       <<K_is_emergency, JBool(FALSE)>>,
       <<K_recommended_department, None>>,
       <<K_intent, JStr(<<"o", "t", "h", "e", "r">>)>>,
       <<K_needs_clarification, JBool(FALSE)>>,
       <<K_collected_info, JDict(<<>>)>>,
       <<K_suggested_next_state, None>> >>

RECURSIVE FillDefaults(_, _)
\* for key, default_val in defaults.items(): if key not in parsed: ...
FillDefaults(parsed, i) ==
    IF i > Len(ResultDefaults) THEN parsed
    ELSE FillDefaults(
            IF HasKey(parsed, ResultDefaults[i][1]) THEN parsed
            ELSE DictSet(parsed, ResultDefaults[i][1], ResultDefaults[i][2]),
            i + 1)

\* The replacement with the department looked at before the emergency flag.
DepartmentFirst(parsed) ==
    LET Sentence(joined, dept, severity) ==
            IF ~joined.ok THEN Raised
            ELSE Returned(
                    << "Based on " >> \o joined.v
                    \o << ", I recommend visiting **" >> \o PyFormat(dept)
                    \o << "**. Assessed severity: **" >>
                    \o (IF Truthy(severity) THEN PyFormat(severity)
                        ELSE << "under review" >>)
                    \o << "**. Would you like to book an appointment?" >>)
        Built(dept, severity, symptoms) ==
            IF Truthy(dept)
            THEN Sentence(IF Truthy(symptoms) THEN JoinSymptoms(symptoms)
                          ELSE Returned(<< "your symptoms" >>),
                          dept, severity)
            ELSE IF Truthy(DictGet(parsed, K_is_emergency, None))
            THEN Returned(EMERGENCY_NOTICE)
            ELSE Returned(CLARIFICATION_REQUEST)
    IN  Built(DictGet(parsed, K_recommended_department, JStr(<<>>)),
              DictGet(parsed, K_severity, JStr(<<>>)),
              DictGet(parsed, K_extracted_symptoms, JList(<<>>)))

\* The sentence _validate_parsed_result puts in place of the response.
SynthesizedResponse(parsed) ==
    LET Sentence(joined, dept, severity) ==
            IF ~joined.ok THEN Raised
            ELSE Returned(
                    << "Based on " >> \o joined.v
                    \o << ", I recommend visiting **" >> \o PyFormat(dept)
                    \o << "**. Assessed severity: **" >>
                    \o (IF Truthy(severity) THEN PyFormat(severity)
                        ELSE << "under review" >>)
                    \o << "**. Would you like to book an appointment?" >>)
        Built(dept, severity, symptoms) ==
            IF Truthy(DictGet(parsed, K_is_emergency, None))
            THEN Returned(EMERGENCY_NOTICE)
            ELSE IF Truthy(dept)
            THEN Sentence(IF Truthy(symptoms) THEN JoinSymptoms(symptoms)
                          ELSE Returned(<< "your symptoms" >>),
                          dept, severity)
            ELSE Returned(CLARIFICATION_REQUEST)
    IN  Built(DictGet(parsed, K_recommended_department, JStr(<<>>)),
              DictGet(parsed, K_severity, JStr(<<>>)),
              DictGet(parsed, K_extracted_symptoms, JList(<<>>)))

\* _validate_parsed_result(parsed), for a dict
_validate_parsed_result(parsed) ==
    LET Replaced(r) ==
            IF r.ok THEN Returned(FillDefaults(DictSet(parsed, K_response, JStr(r.v)), 1))
            ELSE Raised
        Validated(response_text) ==
            IF Truthy(response_text) /\ ~IsStr(response_text)
            THEN Raised     \* text.strip() on a value that is no str
            ELSE IF ~Truthy(response_text) \/ _looks_like_json(response_text.s)
            THEN Replaced(SynthesizedResponse(parsed))
            ELSE Returned(FillDefaults(parsed, 1))
    IN  Validated(DictGet(parsed, K_response, JStr(<<>>)))

\* The grave accent (the code-fence character) is named: the lexer of this
\* language reads the character itself as the start of a quotation.
Backtick == "<backtick>"

Fence == << Backtick, Backtick, Backtick >>

\* The fenced-block pattern of attempt 2: a fence, an optional "json",
\* whitespace, a lazy brace-delimited group, whitespace, a fence.  Where the
\* group starts for a match that begins at i, or 0.
FenceOpen(t, i) ==
    LET Brace(c) == IF c <= Len(t) /\ t[c] = "{" THEN c ELSE 0
        AfterFence(a) ==
            Brace(FirstNonSpace(t, IF StartsWithAt(t, a, <<"j", "s", "o", "n">>) THEN a + 4 ELSE a))
    IN  IF ~StartsWithAt(t, i, Fence) THEN 0 ELSE AfterFence(i + 3)

\* The ends the lazy group can have, for a group that starts at p.
FenceCloses(t, p) ==
    {q \in (p + 1)..Len(t) : t[q] = "}" /\ StartsWithAt(t, FirstNonSpace(t, q + 1), Fence)}

\* The least number of a non-empty set of numbers.
Least(numbers) == CHOOSE n \in numbers : \A m \in numbers : n <= m

\* The greatest number of a non-empty set of numbers.
Greatest(numbers) == CHOOSE n \in numbers : \A m \in numbers : m <= n

\* The positions of t where attempt 2's pattern can start and the group each
\* one gives: the group's first position and its possible last positions.
FenceMatches(t) ==
    LET Match(p) == [open |-> p, closes |-> IF p = 0 THEN {} ELSE FenceCloses(t, p)]
    IN  [i \in 1..Len(t) |-> Match(FenceOpen(t, i))]

\* Attempt 2's re.search over raw_text with re.DOTALL: group 1
FencedBlock(t) ==
    LET Group(m) == [found |-> TRUE, group |-> SubSeq(t, m.open, Least(m.closes))]
        First(matches, starts) ==
            IF starts = {} THEN [found |-> FALSE] ELSE Group(matches[Least(starts)])
        Search(matches) ==
            First(matches, {i \in 1..Len(t) : matches[i].closes # {}})
    IN  Search(FenceMatches(t))

\* Attempt 3's re.search (first brace to last brace) with re.DOTALL: group 0
BraceRegion(t) ==
    LET Region(i, closes) ==
            IF closes = {} THEN [found |-> FALSE]
            ELSE [found |-> TRUE, group |-> SubSeq(t, i, Greatest(closes))]
        From(i) == Region(i, {q \in (i + 1)..Len(t) : t[q] = "}"})
        Search(opens) == IF opens = {} THEN [found |-> FALSE] ELSE From(Least(opens))
    IN  Search({i \in 1..Len(t) : t[i] = "{"})

\* json.loads on the group a search found, or a failure if it found none.
LoadGroup(match) == IF match.found THEN json_loads(match.group) ELSE ParseFail

\* The value of parsed after the three attempts of _parse_response.
ParseAttempts(raw_text) ==
    LET Attempt3(region) == IF region.ok THEN region.v ELSE None
        Attempt2(fenced) ==
            IF fenced.ok THEN fenced.v ELSE Attempt3(LoadGroup(BraceRegion(raw_text)))
        Attempt1(direct) ==
            IF direct.ok /\ direct.v # None THEN direct.v
            ELSE Attempt2(LoadGroup(FencedBlock(raw_text)))
    IN  Attempt1(json_loads(raw_text))

\* _parse_response(raw_text)
_parse_response(raw_text) ==
    LET Checked(parsed) ==
            IF Truthy(parsed) /\ IsDict(parsed)
            THEN _validate_parsed_result(parsed)
            ELSE Returned(_fallback_response)
    IN  Checked(ParseAttempts(raw_text))

\* What the generation service does with one request: it returns text, or the
\* call fails (transport error, timeout, a response without text).
ServiceText(text) == [kind |-> "text", text |-> text]

ServiceError == [kind |-> "error"]

\* The body of generate(context, user_message): the result for one service
\* outcome.
GeneratedResult(service) ==
    LET Caught(r) == IF r.ok THEN r.v ELSE _fallback_response
    IN  IF service.kind = "error" THEN _fallback_response
        ELSE Caught(_parse_response(service.text))

(***************************************************************************)
(* config.py and the constants of process_message.                         *)
(***************************************************************************)

MAX_CONVERSATION_TURNS == 50

MAX_MSG_CHARS == 2000

MAX_HISTORY == 24

(***************************************************************************)
(* chatbot/conversation_manager.py.                                        *)
(*                                                                         *)
(* The context is the dict of create_initial_context.  state is one of the *)
(* state names; severity, department, booking_id and the appointment       *)
(* fields are Python values (None or a str); symptoms is the list of       *)
(* symptom strings.  history is the list of the entries' roles: nothing in *)
(* the orchestrator reads the content of an entry again, and the outcome   *)
(* of a call holds the entries, with their content, that the call          *)
(* appended.                                                               *)
(***************************************************************************)

CRITICAL == JStr(<<"c", "r", "i", "t", "i", "c", "a", "l">>)

MODERATE == JStr(<<"m", "o", "d", "e", "r", "a", "t", "e">>)

MILD == JStr(<<"m", "i", "l", "d">>)

\* The four appointment fields, in the order the code visits them.
APPOINTMENT_KEYS == << "patient_name", "preferred_date", "preferred_time", "contact_number" >>

AppointmentKeySpelling ==
    [ patient_name |-> <<"p", "a", "t", "i", "e", "n", "t", "_", "n", "a", "m", "e">>,
      preferred_date |-> <<"p", "r", "e", "f", "e", "r", "r", "e", "d", "_", "d", "a", "t", "e">>,
      preferred_time |-> <<"p", "r", "e", "f", "e", "r", "r", "e", "d", "_", "t", "i", "m", "e">>,
      contact_number |-> <<"c", "o", "n", "t", "a", "c", "t", "_", "n", "u", "m", "b", "e", "r">> ]

\* create_initial_context()
create_initial_context ==
    [ state |-> "greeting",
      symptoms |-> <<>>,
      severity |-> None,
      department |-> None,
      is_emergency |-> FALSE,
      appointment |-> [ patient_name |-> None, preferred_date |-> None,
                        preferred_time |-> None, contact_number |-> None ],
      history |-> <<>>,
      booking_id |-> None ]

\* Fixed prose of the module.
EMPTY_MESSAGE_PROMPT == << "Please type a message to get started." >>

TURN_LIMIT_MESSAGE ==
    << "This conversation has reached the maximum number of turns. Please click **New Conversation** to start fresh." >>

TRUNCATION_MARKER == <<".", ".", ".", " ", "(", "t", "r", "u", "n", "c", "a", "t", "e", "d", ")">>

DEFAULT_RESPONSE == << "I apologize, something went wrong." >>

CALL_EMERGENCY_SERVICES ==
    "1. **Call emergency services NOW**: Dial **911** (US) or **112** (EU/India)"

MANUAL_CONFIRMATION_NOTICE ==
    "Please call the hospital directly to confirm your appointment."

\* _get_emergency_response(keywords, context)
_get_emergency_response(keywords, ctx) ==
    LET matched == Join(<<",", " ">>, Prefix(keywords, 3))
        joined == Join(<<",", " ">>, ctx.symptoms)
        symptoms_str == IF Len(joined) > 0 THEN joined ELSE matched
    IN  << "**EMERGENCY ALERT** Based on what you've described (**" >>
        \o symptoms_str
        \o << "**), this appears to be a **critical medical emergency**. ### Immediate Actions Required:",
              CALL_EMERGENCY_SERVICES,
              "2. **Do not wait** -- seek immediate medical attention 3. If someone is with you, ask them to help while you call ### Important: - I **cannot** book a regular appointment for emergency conditions - Emergency cases need **immediate in-person medical care** - Please go to the nearest **Emergency Room (ER)** if you can --- *Once you are safe, feel free to start a new conversation for any non-emergency health concerns.*" >>

\* _sanitize_response(response), for a str: the value it returns.
_sanitize_response(response) ==
    LET Loaded(data) ==
            IF ~data.ok THEN JStr(response)
            ELSE IF IsDict(data.v) /\ HasKey(data.v, K_response)
            THEN DictGet(data.v, K_response, None)
            ELSE JStr(CLARIFICATION_REQUEST)
        Checked(stripped) ==
            IF StartsWith(stripped, <<"{">>) THEN Loaded(json_loads(stripped))
            ELSE JStr(response)
    IN  Checked(str_strip(response))

\* _detect_intent_switch with a cancellation taken in any state.
DetectCancellationAnywhere(current_state, llm_intent) ==
    \/ /\ llm_intent = JStr(<<"s", "y", "m", "p", "t", "o", "m", "_", "r", "e", "p", "o", "r", "t">>)
       /\ current_state \in {"collecting_details", "booking_confirmation", "appointment_offer"}
    \/ /\ llm_intent = JStr(<<"b", "o", "o", "k", "i", "n", "g", "_", "r", "e", "q", "u", "e", "s", "t">>)
       /\ current_state \in {"symptom_collection", "severity_assessment"}
    \/ llm_intent = JStr(<<"c", "a", "n", "c", "e", "l", "l", "a", "t", "i", "o", "n">>)

\* _detect_intent_switch(current_state, llm_intent)
_detect_intent_switch(current_state, llm_intent) ==
    \/ /\ llm_intent = JStr(<<"s", "y", "m", "p", "t", "o", "m", "_", "r", "e", "p", "o", "r", "t">>)
       /\ current_state \in {"collecting_details", "booking_confirmation", "appointment_offer"}
    \/ /\ llm_intent = JStr(<<"b", "o", "o", "k", "i", "n", "g", "_", "r", "e", "q", "u", "e", "s", "t">>)
       /\ current_state \in {"symptom_collection", "severity_assessment"}
    \/ /\ llm_intent = JStr(<<"c", "a", "n", "c", "e", "l", "l", "a", "t", "i", "o", "n">>)
       /\ current_state \in {"collecting_details", "booking_confirmation"}

\* _resolve_intent_switch(llm_intent): the state, or "<no state>" for None
_resolve_intent_switch(llm_intent) ==
    CASE llm_intent = JStr(<<"s", "y", "m", "p", "t", "o", "m", "_", "r", "e", "p", "o", "r", "t">>) -> "symptom_collection"
      [] llm_intent = JStr(<<"b", "o", "o", "k", "i", "n", "g", "_", "r", "e", "q", "u", "e", "s", "t">>) -> "appointment_offer"
      [] llm_intent = JStr(<<"c", "a", "n", "c", "e", "l", "l", "a", "t", "i", "o", "n">>) -> "completed"
      [] llm_intent = JStr(<<"g", "r", "e", "e", "t", "i", "n", "g">>) -> "greeting"
      [] OTHER -> "<no state>"

\* A step of the turn either goes on with a context or raises, leaving the
\* context as mutated so far.
Go(ctx) == [ok |-> TRUE, ctx |-> ctx]

Fault(ctx) == [ok |-> FALSE, ctx |-> ctx]

\* What iterating over extracted_symptoms and calling s.lower().strip() on
\* each item gives: the normalised strings, or an exception.
SymptomItems(new_symptoms) ==
    CASE new_symptoms.t = "list" ->
            IF \A i \in 1..Len(new_symptoms.xs) : IsStr(new_symptoms.xs[i])
            THEN Returned({str_strip(str_lower(new_symptoms.xs[i].s)) : i \in 1..Len(new_symptoms.xs)})
            ELSE Raised
      [] new_symptoms.t = "str" ->
            Returned({str_strip(str_lower(<<new_symptoms.s[i]>>)) : i \in 1..Len(new_symptoms.s)})
      [] new_symptoms.t = "dict" ->
            Returned({str_strip(str_lower(new_symptoms.kv[i][1])) : i \in 1..Len(new_symptoms.kv)})
      [] OTHER -> Raised

\* The set "existing" of step 4 after the update, when it does not raise.
MergedSymptoms(ctx, llm_result) ==
    LET new_symptoms == DictGet(llm_result, K_extracted_symptoms, JList(<<>>))
        items == SymptomItems(new_symptoms)
    IN  {ctx.symptoms[i] : i \in 1..Len(ctx.symptoms)}
        \cup (IF Truthy(new_symptoms) /\ items.ok THEN items.v ELSE {})

\* The orders list(existing) can give a set.
ListsOf(set) ==
    {order \in [1..Cardinality(set) -> set] :
        \A i, j \in 1..Cardinality(set) : i # j => order[i] # order[j]}

\* Step 4 with the new symptoms in place of the old ones.
ReplaceSymptoms(ctx, llm_result, order) ==
    LET Kept(items) ==
            IF ~items.ok THEN Fault(ctx)
            ELSE Go([ctx EXCEPT !.symptoms = SelectSeq(order, LAMBDA s : s \in items.v)])
        Replaced(new_symptoms) ==
            IF ~Truthy(new_symptoms) THEN Go(ctx) ELSE Kept(SymptomItems(new_symptoms))
    IN  Replaced(DictGet(llm_result, K_extracted_symptoms, JList(<<>>)))

\* Step 4 with the new symptoms appended to the list, whether known or not.
AppendSymptoms(ctx, llm_result, order) ==
    LET Added(new_symptoms) ==
            IF ~Truthy(new_symptoms) THEN Go(ctx)
            ELSE IF ~SymptomItems(new_symptoms).ok \/ ~IsList(new_symptoms) THEN Fault(ctx)
            ELSE Go([ctx EXCEPT !.symptoms =
                        @ \o [i \in 1..Len(new_symptoms.xs) |->
                                 str_strip(str_lower(new_symptoms.xs[i].s))]])
    IN  Added(DictGet(llm_result, K_extracted_symptoms, JList(<<>>)))

\* Step 4: extract and update symptoms; "order" is the list that
\* list(existing) turns out to be.
UpdateSymptoms(ctx, llm_result, order) ==
    LET new_symptoms == DictGet(llm_result, K_extracted_symptoms, JList(<<>>))
    IN  IF ~Truthy(new_symptoms) THEN Go(ctx)
        ELSE IF ~SymptomItems(new_symptoms).ok THEN Fault(ctx)
        ELSE Go([ctx EXCEPT !.symptoms = order])

\* Step 5: update severity if assessed.
UpdateSeverity(ctx, llm_result) ==
    LET llm_severity == DictGet(llm_result, K_severity, None)
    IN  IF Truthy(llm_severity) /\ llm_severity \in {CRITICAL, MODERATE, MILD}
        THEN [ctx EXCEPT !.severity = llm_severity]
        ELSE ctx

\* Step 6: update department if recommended.
UpdateDepartment(ctx, llm_result) ==
    LET llm_department == DictGet(llm_result, K_recommended_department, None)
    IN  IF Truthy(llm_department) THEN [ctx EXCEPT !.department = llm_department] ELSE ctx

RECURSIVE OverwriteAppointmentFrom(_, _, _)
\* The loop of step 7 storing whatever the Result has for each key.
OverwriteAppointmentFrom(ctx, collected_info, i) ==
    IF i > Len(APPOINTMENT_KEYS) THEN Go(ctx)
    ELSE OverwriteAppointmentFrom(
            [ctx EXCEPT !.appointment[APPOINTMENT_KEYS[i]] =
                DictGet(collected_info, AppointmentKeySpelling[APPOINTMENT_KEYS[i]], None)],
            collected_info, i + 1)

RECURSIVE UpdateAppointmentFrom(_, _, _)
\* The loop of step 7 from its i-th key on.
UpdateAppointmentFrom(ctx, collected_info, i) ==
    IF i > Len(APPOINTMENT_KEYS) THEN Go(ctx)
    ELSE LET key == APPOINTMENT_KEYS[i]
             value == DictGet(collected_info, AppointmentKeySpelling[key], None)
         IN  IF ~Truthy(value) THEN UpdateAppointmentFrom(ctx, collected_info, i + 1)
             ELSE IF ~IsStr(value) THEN Fault(ctx)    \* value.lower()
             ELSE IF str_lower(value.s) \in {<<"n", "u", "l", "l">>, <<"n", "o", "n", "e">>, <<>>}
                  THEN UpdateAppointmentFrom(ctx, collected_info, i + 1)
             ELSE UpdateAppointmentFrom(
                    [ctx EXCEPT !.appointment[key] = value], collected_info, i + 1)

\* Step 7: update appointment details.
UpdateAppointment(ctx, llm_result) ==
    LET collected_info == DictGet(llm_result, K_collected_info, JDict(<<>>))
    IN  IF ~Truthy(collected_info) THEN Go(ctx)
        ELSE IF ~IsDict(collected_info) THEN Fault(ctx)    \* collected_info.get
        ELSE UpdateAppointmentFrom(ctx, collected_info, 1)

\* Step 8 with the priority reversed: the suggested state first, then the
\* intent switch, then the Result's emergency flag, the scanner last.
DecideStateReversed(ctx, llm_result, emergency_matches) ==
    LET Escalated(response) ==
            [ok |-> TRUE,
             ctx |-> [ctx EXCEPT !.state = "emergency", !.is_emergency = TRUE,
                                 !.severity = CRITICAL],
             response |-> response]
        Decided(response, llm_intent, suggested) ==
            IF Truthy(suggested) /\ is_valid_transition(ctx.state, StateNamed(suggested))
            THEN [ok |-> TRUE, ctx |-> [ctx EXCEPT !.state = StateNamed(suggested)],
                  response |-> response]
            ELSE IF _detect_intent_switch(ctx.state, llm_intent)
            THEN [ok |-> TRUE,
                  ctx |-> [ctx EXCEPT !.state = _resolve_intent_switch(llm_intent)],
                  response |-> response]
            ELSE IF \/ Truthy(DictGet(llm_result, K_is_emergency, None))
                    \/ DictGet(llm_result, K_severity, None) = CRITICAL
                    \/ Len(emergency_matches) > 0
            THEN Escalated(response)
            ELSE [ok |-> TRUE, ctx |-> ctx, response |-> response]
    IN  Decided(DictGet(llm_result, K_response, JStr(DEFAULT_RESPONSE)),
                DictGet(llm_result, K_intent, JStr(<<"o", "t", "h", "e", "r">>)),
                DictGet(llm_result, K_suggested_next_state, None))

\* Step 8 adopting whatever state the Result suggests, allowed or not.
DecideStateTrusting(ctx, llm_result, emergency_matches) ==
    LET Escalated(response) ==
            [ok |-> TRUE,
             ctx |-> [ctx EXCEPT !.state = "emergency", !.is_emergency = TRUE,
                                 !.severity = CRITICAL],
             response |-> response]
        Decided(response, llm_intent, suggested) ==
            IF Len(emergency_matches) > 0
            THEN Escalated(IF Truthy(DictGet(llm_result, K_is_emergency, None)) THEN response
                           ELSE JStr(_get_emergency_response(emergency_matches, ctx)))
            ELSE IF \/ Truthy(DictGet(llm_result, K_is_emergency, None))
                    \/ DictGet(llm_result, K_severity, None) = CRITICAL
            THEN Escalated(response)
            ELSE IF _detect_intent_switch(ctx.state, llm_intent)
            THEN [ok |-> TRUE,
                  ctx |-> [ctx EXCEPT !.state = _resolve_intent_switch(llm_intent)],
                  response |-> response]
            ELSE IF StateNamed(suggested) \in ConversationState
            THEN [ok |-> TRUE, ctx |-> [ctx EXCEPT !.state = StateNamed(suggested)],
                  response |-> response]
            ELSE [ok |-> TRUE, ctx |-> ctx, response |-> response]
    IN  Decided(DictGet(llm_result, K_response, JStr(DEFAULT_RESPONSE)),
                DictGet(llm_result, K_intent, JStr(<<"o", "t", "h", "e", "r">>)),
                DictGet(llm_result, K_suggested_next_state, None))

\* Step 8 with the Result's text as the response on a scanner match too.
DecideStateKeepingText(ctx, llm_result, emergency_matches) ==
    LET Escalated(response) ==
            [ok |-> TRUE,
             ctx |-> [ctx EXCEPT !.state = "emergency", !.is_emergency = TRUE,
                                 !.severity = CRITICAL],
             response |-> response]
        Decided(response, llm_intent, suggested) ==
            IF \/ Len(emergency_matches) > 0
               \/ Truthy(DictGet(llm_result, K_is_emergency, None))
               \/ DictGet(llm_result, K_severity, None) = CRITICAL
            THEN Escalated(response)
            ELSE IF _detect_intent_switch(ctx.state, llm_intent)
            THEN [ok |-> TRUE,
                  ctx |-> [ctx EXCEPT !.state = _resolve_intent_switch(llm_intent)],
                  response |-> response]
            ELSE IF Truthy(suggested) /\ is_valid_transition(ctx.state, StateNamed(suggested))
            THEN [ok |-> TRUE, ctx |-> [ctx EXCEPT !.state = StateNamed(suggested)],
                  response |-> response]
            ELSE [ok |-> TRUE, ctx |-> ctx, response |-> response]
    IN  Decided(DictGet(llm_result, K_response, JStr(DEFAULT_RESPONSE)),
                DictGet(llm_result, K_intent, JStr(<<"o", "t", "h", "e", "r">>)),
                DictGet(llm_result, K_suggested_next_state, None))

\* Step 8 raising the emergency flag also when the Result's suggestion of
\* emergency is adopted.
DecideStateFlaggingSuggested(ctx, llm_result, emergency_matches) ==
    LET Escalated(response) ==
            [ok |-> TRUE,
             ctx |-> [ctx EXCEPT !.state = "emergency", !.is_emergency = TRUE,
                                 !.severity = CRITICAL],
             response |-> response]
        Decided(response, llm_intent, suggested) ==
            IF Len(emergency_matches) > 0
            THEN Escalated(IF Truthy(DictGet(llm_result, K_is_emergency, None)) THEN response
                           ELSE JStr(_get_emergency_response(emergency_matches, ctx)))
            ELSE IF \/ Truthy(DictGet(llm_result, K_is_emergency, None))
                    \/ DictGet(llm_result, K_severity, None) = CRITICAL
            THEN Escalated(response)
            ELSE IF _detect_intent_switch(ctx.state, llm_intent)
            THEN [ok |-> TRUE,
                  ctx |-> [ctx EXCEPT !.state = _resolve_intent_switch(llm_intent)],
                  response |-> response]
            ELSE IF StateNamed(suggested) = "emergency"
            THEN Escalated(response)
            ELSE IF Truthy(suggested) /\ is_valid_transition(ctx.state, StateNamed(suggested))
            THEN [ok |-> TRUE, ctx |-> [ctx EXCEPT !.state = StateNamed(suggested)],
                  response |-> response]
            ELSE [ok |-> TRUE, ctx |-> ctx, response |-> response]
    IN  Decided(DictGet(llm_result, K_response, JStr(DEFAULT_RESPONSE)),
                DictGet(llm_result, K_intent, JStr(<<"o", "t", "h", "e", "r">>)),
                DictGet(llm_result, K_suggested_next_state, None))

\* Step 8: the response and the state, by priority.
DecideState(ctx, llm_result, emergency_matches) ==
    LET response == DictGet(llm_result, K_response, JStr(DEFAULT_RESPONSE))
        llm_intent == DictGet(llm_result, K_intent, JStr(<<"o", "t", "h", "e", "r">>))
        llm_severity == DictGet(llm_result, K_severity, None)
        llm_emergency == Truthy(DictGet(llm_result, K_is_emergency, None))
        escalated == [ctx EXCEPT !.state = "emergency", !.is_emergency = TRUE,
                                 !.severity = CRITICAL]
        suggested == DictGet(llm_result, K_suggested_next_state, None)
    IN  IF Len(emergency_matches) > 0
        THEN [ok |-> TRUE, ctx |-> escalated,
              response |-> IF llm_emergency THEN response
                           ELSE JStr(_get_emergency_response(emergency_matches, escalated))]
        ELSE IF llm_emergency \/ llm_severity = CRITICAL
        THEN [ok |-> TRUE, ctx |-> escalated, response |-> response]
        ELSE IF _detect_intent_switch(ctx.state, llm_intent)
        THEN [ok |-> TRUE,
              ctx |-> [ctx EXCEPT !.state = _resolve_intent_switch(llm_intent)],
              response |-> response]
        ELSE IF ~Truthy(suggested)
        THEN [ok |-> TRUE, ctx |-> ctx, response |-> response]
        ELSE IF suggested.t \in {"list", "dict"}
        THEN [ok |-> FALSE, ctx |-> ctx]    \* an unhashable value tested against a set
        ELSE IF is_valid_transition(ctx.state, StateNamed(suggested))
        THEN [ok |-> TRUE, ctx |-> [ctx EXCEPT !.state = StateNamed(suggested)],
              response |-> response]
        ELSE [ok |-> TRUE, ctx |-> ctx, response |-> response]

\* The branch of _handle_booking for a save that returned an identifier.
BookingSaved(ctx, saved) ==
    LET Confirmed(booked, appt) ==
            IF ~IsStr(ctx.severity)
            THEN [ok |-> FALSE, ctx |-> booked, save_calls |-> 1]    \* None.title()
            ELSE [ok |-> TRUE, ctx |-> booked, save_calls |-> 1,
                  response |-> JStr(
                     << "**Appointment Confirmed!** **Booking Details:** | Field | Details | |-------|--------| | **Booking ID** | ",
                        Backtick >>
                     \o Suffix(saved.s, 8)
                     \o << Backtick, " | | **Patient** | " >> \o PyFormat(appt.patient_name)
                     \o << " | | **Date** | " >> \o PyFormat(appt.preferred_date)
                     \o << " | | **Time** | " >> \o PyFormat(appt.preferred_time)
                     \o << " | | **Contact** | " >> \o PyFormat(appt.contact_number)
                     \o << " | | **Department** | " >> \o PyFormat(ctx.department)
                     \o << " | | **Severity** | " >> \o str_title(ctx.severity.s)
                     \o << " | Your appointment has been saved. Please arrive **15 minutes early** and bring any relevant medical documents. Is there anything else I can help you with?" >>)]
    IN  Confirmed([ctx EXCEPT !.state = "completed", !.booking_id = saved], ctx.appointment)

\* The branch for a save that returned None calling the save once more.
BookingRetried(ctx) ==
    [ok |-> TRUE, ctx |-> [ctx EXCEPT !.state = "completed"], save_calls |-> 2,
     response |-> JStr(<< MANUAL_CONFIRMATION_NOTICE >>)]

\* BookingUnsaved without the change of state.
BookingUnsavedStays(ctx) ==
    [ok |-> TRUE, ctx |-> ctx, save_calls |-> 1,
     response |-> JStr(<< MANUAL_CONFIRMATION_NOTICE >>)]

\* The branch of _handle_booking for a save that returned None.
BookingUnsaved(ctx) ==
    LET Recorded(appt) ==
            [ok |-> TRUE, ctx |-> [ctx EXCEPT !.state = "completed"], save_calls |-> 1,
             response |-> JStr(
                << "**Appointment Details Recorded** (Database temporarily unavailable) **Your Details:** | Field | Details | |-------|--------| | **Patient** | " >>
                \o PyFormat(appt.patient_name)
                \o << " | | **Date** | " >> \o PyFormat(appt.preferred_date)
                \o << " | | **Time** | " >> \o PyFormat(appt.preferred_time)
                \o << " | | **Contact** | " >> \o PyFormat(appt.contact_number)
                \o << " | | **Department** | " >> \o PyFormat(ctx.department)
                \o << " |", MANUAL_CONFIRMATION_NOTICE,
                      "Is there anything else I can help you with?" >>)]
    IN  Recorded(ctx.appointment)

\* _handle_booking saving whatever details there are.
BookingWithoutCheck(response, ctx, saved) ==
    IF Truthy(saved) THEN BookingSaved(ctx, saved) ELSE BookingUnsaved(ctx)

\* _handle_booking(response, context); "saved" is what save_appointment
\* returns if it is called.
_handle_booking(response, ctx, saved) ==
    IF \E i \in 1..Len(APPOINTMENT_KEYS) : ~Truthy(ctx.appointment[APPOINTMENT_KEYS[i]])
    THEN [ok |-> TRUE, ctx |-> [ctx EXCEPT !.state = "collecting_details"],
          response |-> response, save_calls |-> 0]
    ELSE IF Truthy(saved) THEN BookingSaved(ctx, saved)
    ELSE BookingUnsaved(ctx)

\* The entries of history: one per role.
UserEntry(content) == [role |-> "user", content |-> content]

AssistantEntry(content) == [role |-> "assistant", content |-> content]

\* sum(1 for m in context["history"] if m["role"] == "user")
TurnCount(ctx) == Cardinality({i \in 1..Len(ctx.history) : ctx.history[i] = "user"})

\* The turn-limit test with the limit itself still allowed.
TurnLimitExceeded(ctx) == TurnCount(ctx) > MAX_CONVERSATION_TURNS

\* The turn-limit test of process_message
TurnLimitReached(ctx) == TurnCount(ctx) >= MAX_CONVERSATION_TURNS

\* context["history"].append(entry), then the trim to the MAX_HISTORY latest
AppendUserAndTrim(ctx) ==
    LET appended == Append(ctx.history, "user")
    IN  [ctx EXCEPT !.history =
            IF Len(appended) > MAX_HISTORY
            THEN SubSeq(appended, Len(appended) - MAX_HISTORY + 1, Len(appended))
            ELSE appended]

\* The result of one call: it returned (response, context) or raised; the
\* context is the caller's dict as the call left it.
Outcome(kind, ctx, resp, llm, save, entries) ==
    [ kind |-> kind, ctx |-> ctx, response |-> resp,
      llm_calls |-> llm, save_calls |-> save, appended |-> entries ]

\* Steps 9 to 11 of process_message.
FinishTurn(decided, user_message, saved) ==
    LET Sanitized(booking, final) ==
            Outcome("returned",
                    [booking.ctx EXCEPT !.history = Append(@, "assistant")],
                    final, 1, booking.save_calls,
                    << UserEntry(user_message), AssistantEntry(final) >>)
        Booked(booking) ==
            IF ~booking.ok
            THEN Outcome("fault", booking.ctx, None, 1, booking.save_calls,
                         << UserEntry(user_message) >>)
            ELSE IF ~IsStr(booking.response)
            THEN Outcome("fault", booking.ctx, None, 1, booking.save_calls,
                         << UserEntry(user_message) >>)    \* response.strip()
            ELSE Sanitized(booking, _sanitize_response(booking.response.s))
    IN  Booked(IF decided.ctx.state = "booking_confirmation"
               THEN _handle_booking(decided.response, decided.ctx, saved)
               ELSE [ok |-> TRUE, ctx |-> decided.ctx, response |-> decided.response,
                     save_calls |-> 0])

\* user_message left at its full length.
NoTruncation(stripped) == stripped

\* user_message after the truncation to MAX_MSG_CHARS, for the stripped text
UserMessage(stripped) ==
    IF Len(stripped) > MAX_MSG_CHARS
    THEN Prefix(stripped, MAX_MSG_CHARS) \o TRUNCATION_MARKER
    ELSE stripped

(***************************************************************************)
(* The inputs the specifications draw from: messages, outputs of the       *)
(* generation service and outcomes of save_appointment.                    *)
(***************************************************************************)

MSG_HELLO == <<"h", "e", "l", "l", "o">>

MSG_EMPTY == <<>>

MSG_BLANK == <<" ", " ">>

MSG_CHEST == <<"I", " ", "h", "a", "v", "e", " ", "c", "h", "e", "s", "t", " ", "p", "a", "i", "n", " ", "a", "n", "d", " ", "d", "i", "f", "f", "i", "c", "u", "l", "t", "y", " ", "b", "r", "e", "a", "t", "h", "i", "n", "g">>

MSG_STROKE == <<" ", "I", " ", "t", "h", "i", "n", "k", " ", "i", "t", " ", "i", "s", " ", "a", " ", "S", "T", "R", "O", "K", "E", " ">>

\* A message of MAX_MSG_CHARS characters followed by an emergency phrase.
MSG_LONG == [i \in 1..MAX_MSG_CHARS |-> "x"] \o <<" ", "s", "t", "r", "o", "k", "e">>

Messages == { MSG_HELLO, MSG_BLANK, MSG_CHEST, MSG_STROKE }

\* Outputs of the generation service.
OUT_SUGGEST(state) ==
    <<"{", "\"", "r", "e", "s", "p", "o", "n", "s", "e", "\"", ":", " ", "\"", "o", "k", "\"", ",", " ", "\"", "s", "u", "g", "g", "e", "s", "t", "e", "d", "_", "n", "e", "x", "t", "_", "s", "t", "a", "t", "e", "\"", ":", " ", "\"">> \o StateSpelling[state] \o <<"\"", "}">>

OUT_BOOKING_REQUEST == <<"{", "\"", "r", "e", "s", "p", "o", "n", "s", "e", "\"", ":", " ", "\"", "s", "u", "r", "e", "\"", ",", " ", "\"", "i", "n", "t", "e", "n", "t", "\"", ":", " ", "\"", "b", "o", "o", "k", "i", "n", "g", "_", "r", "e", "q", "u", "e", "s", "t", "\"", "}">>

OUT_DETAILS ==
    <<"{", "\"", "r", "e", "s", "p", "o", "n", "s", "e", "\"", ":", " ", "\"", "n", "o", "t", "e", "d", "\"", ",", " ", "\"", "s", "u", "g", "g", "e", "s", "t", "e", "d", "_", "n", "e", "x", "t", "_", "s", "t", "a", "t", "e", "\"", ":", " ", "\"", "c", "o", "l", "l", "e", "c", "t", "i", "n", "g", "_", "d", "e", "t", "a", "i", "l", "s", "\"", ",", " ", "\"", "c", "o", "l", "l", "e", "c", "t", "e", "d", "_", "i", "n", "f", "o", "\"", ":", " ", "{", "\"", "p", "a", "t", "i", "e", "n", "t", "_", "n", "a", "m", "e", "\"", ":", " ", "\"", "A", "l", "\"", ",", " ", "\"", "p", "r", "e", "f", "e", "r", "r", "e", "d", "_", "d", "a", "t", "e", "\"", ":", " ", "\"", "M", "o", "n", "\"", ",", " ", "\"", "p", "r", "e", "f", "e", "r", "r", "e", "d", "_", "t", "i", "m", "e", "\"", ":", " ", "\"", "9", "a", "m", "\"", ",", " ", "\"", "c", "o", "n", "t", "a", "c", "t", "_", "n", "u", "m", "b", "e", "r", "\"", ":", " ", "\"", "5", "5", "5", "\"", "}", "}">>

OUT_MILD == <<"{", "\"", "r", "e", "s", "p", "o", "n", "s", "e", "\"", ":", " ", "\"", "g", "o", "o", "d", "\"", ",", " ", "\"", "s", "e", "v", "e", "r", "i", "t", "y", "\"", ":", " ", "\"", "m", "i", "l", "d", "\"", "}">>

OUT_ASSESSED ==
    <<"{", "\"", "r", "e", "s", "p", "o", "n", "s", "e", "\"", ":", " ", "\"", "I", " ", "s", "e", "e", "\"", ",", " ", "\"", "e", "x", "t", "r", "a", "c", "t", "e", "d", "_", "s", "y", "m", "p", "t", "o", "m", "s", "\"", ":", " ", "[", "\"", "C", "o", "u", "g", "h", "\"", ",", " ", "\"", "f", "e", "v", "e", "r", "\"", "]", ",", " ", "\"", "s", "e", "v", "e", "r", "i", "t", "y", "\"", ":", " ", "\"", "m", "o", "d", "e", "r", "a", "t", "e", "\"", ",", " ", "\"", "r", "e", "c", "o", "m", "m", "e", "n", "d", "e", "d", "_", "d", "e", "p", "a", "r", "t", "m", "e", "n", "t", "\"", ":", " ", "\"", "E", "N", "T", "\"", ",", " ", "\"", "s", "u", "g", "g", "e", "s", "t", "e", "d", "_", "n", "e", "x", "t", "_", "s", "t", "a", "t", "e", "\"", ":", " ", "\"", "s", "y", "m", "p", "t", "o", "m", "_", "c", "o", "l", "l", "e", "c", "t", "i", "o", "n", "\"", "}">>

OUT_EMERGENCY == <<"{", "\"", "r", "e", "s", "p", "o", "n", "s", "e", "\"", ":", " ", "\"", "c", "a", "l", "l", " ", "n", "o", "w", "\"", ",", " ", "\"", "i", "s", "_", "e", "m", "e", "r", "g", "e", "n", "c", "y", "\"", ":", " ", "t", "r", "u", "e", "}">>

OUT_ILL_TYPED == <<"{", "\"", "r", "e", "s", "p", "o", "n", "s", "e", "\"", ":", " ", "\"", "h", "i", "\"", ",", " ", "\"", "e", "x", "t", "r", "a", "c", "t", "e", "d", "_", "s", "y", "m", "p", "t", "o", "m", "s", "\"", ":", " ", "[", "1", "]", "}">>

OUT_NESTED == <<"{", "\"", "r", "e", "s", "p", "o", "n", "s", "e", "\"", ":", " ", "\"", "{", "\\", "\"", "r", "e", "s", "p", "o", "n", "s", "e", "\\", "\"", ":", " ", "\\", "\"", "{", "}", "\\", "\"", "}", "\"", "}">>

OUT_PROSE == <<"S", "o", "r", "r", "y", ",", " ", "I", " ", "c", "a", "n", "n", "o", "t", " ", "h", "e", "l", "p", ".">>

\* A symptom already reported, in another casing and with blanks, and a new one.
OUT_MORE_SYMPTOMS == <<"{", "\"", "r", "e", "s", "p", "o", "n", "s", "e", "\"", ":", " ", "\"", "n", "o", "t", "e", "d", "\"", ",", " ", "\"", "e", "x", "t", "r", "a", "c", "t", "e", "d", "_", "s", "y", "m", "p", "t", "o", "m", "s", "\"", ":", " ", "[", "\"", " ", "F", "E", "V", "E", "R", " ", "\"", ",", " ", "\"", "r", "a", "s", "h", "\"", "]", "}">>

OUT_NO_SYMPTOMS == <<"{", "\"", "r", "e", "s", "p", "o", "n", "s", "e", "\"", ":", " ", "\"", "o", "k", "\"", ",", " ", "\"", "e", "x", "t", "r", "a", "c", "t", "e", "d", "_", "s", "y", "m", "p", "t", "o", "m", "s", "\"", ":", " ", "[", "]", "}">>

\* Appointment fields given as a null sentinel, empty, null and a sentinel.
OUT_SENTINELS ==
    <<"{", "\"", "r", "e", "s", "p", "o", "n", "s", "e", "\"", ":", " ", "\"", "o", "k", "\"", ",", " ", "\"", "c", "o", "l", "l", "e", "c", "t", "e", "d", "_", "i", "n", "f", "o", "\"", ":", " ", "{", "\"", "p", "a", "t", "i", "e", "n", "t", "_", "n", "a", "m", "e", "\"", ":", " ", "\"", "N", "U", "L", "L", "\"", ",", " ", "\"", "p", "r", "e", "f", "e", "r", "r", "e", "d", "_", "d", "a", "t", "e", "\"", ":", " ", "\"", "\"", ",", " ", "\"", "p", "r", "e", "f", "e", "r", "r", "e", "d", "_", "t", "i", "m", "e", "\"", ":", " ", "n", "u", "l", "l", ",", " ", "\"", "c", "o", "n", "t", "a", "c", "t", "_", "n", "u", "m", "b", "e", "r", "\"", ":", " ", "\"", "N", "o", "n", "e", "\"", "}", "}">>

\* A booking request that also suggests a state; the same with an emergency
\* flag, and with a critical severity.
OUT_SWITCH ==
    <<"{", "\"", "r", "e", "s", "p", "o", "n", "s", "e", "\"", ":", " ", "\"", "s", "u", "r", "e", "\"", ",", " ", "\"", "i", "n", "t", "e", "n", "t", "\"", ":", " ", "\"", "b", "o", "o", "k", "i", "n", "g", "_", "r", "e", "q", "u", "e", "s", "t", "\"", ",", " ", "\"", "s", "u", "g", "g", "e", "s", "t", "e", "d", "_", "n", "e", "x", "t", "_", "s", "t", "a", "t", "e", "\"", ":", " ", "\"", "s", "e", "v", "e", "r", "i", "t", "y", "_", "a", "s", "s", "e", "s", "s", "m", "e", "n", "t", "\"", "}">>

OUT_FLAG_SWITCH ==
    <<"{", "\"", "r", "e", "s", "p", "o", "n", "s", "e", "\"", ":", " ", "\"", "c", "a", "l", "l", " ", "n", "o", "w", "\"", ",", " ", "\"", "i", "s", "_", "e", "m", "e", "r", "g", "e", "n", "c", "y", "\"", ":", " ", "t", "r", "u", "e", ",", " ", "\"", "i", "n", "t", "e", "n", "t", "\"", ":", " ", "\"", "b", "o", "o", "k", "i", "n", "g", "_", "r", "e", "q", "u", "e", "s", "t", "\"", ",", " ", "\"", "s", "u", "g", "g", "e", "s", "t", "e", "d", "_", "n", "e", "x", "t", "_", "s", "t", "a", "t", "e", "\"", ":", " ", "\"", "s", "e", "v", "e", "r", "i", "t", "y", "_", "a", "s", "s", "e", "s", "s", "m", "e", "n", "t", "\"", "}">>

OUT_CRITICAL_SWITCH ==
    <<"{", "\"", "r", "e", "s", "p", "o", "n", "s", "e", "\"", ":", " ", "\"", "u", "r", "g", "e", "n", "t", "\"", ",", " ", "\"", "s", "e", "v", "e", "r", "i", "t", "y", "\"", ":", " ", "\"", "c", "r", "i", "t", "i", "c", "a", "l", "\"", ",", " ", "\"", "i", "n", "t", "e", "n", "t", "\"", ":", " ", "\"", "b", "o", "o", "k", "i", "n", "g", "_", "r", "e", "q", "u", "e", "s", "t", "\"", ",", " ", "\"", "s", "u", "g", "g", "e", "s", "t", "e", "d", "_", "n", "e", "x", "t", "_", "s", "t", "a", "t", "e", "\"", ":", " ", "\"", "s", "e", "v", "e", "r", "i", "t", "y", "_", "a", "s", "s", "e", "s", "s", "m", "e", "n", "t", "\"", "}">>

SuggestedStates == ConversationState

ServiceOutcomes ==
    { ServiceError }
    \cup { ServiceText(OUT_SUGGEST(s)) : s \in SuggestedStates }
    \cup { ServiceText(t) : t \in { OUT_BOOKING_REQUEST, OUT_DETAILS, OUT_MILD, OUT_ASSESSED,
                                    OUT_EMERGENCY, OUT_ILL_TYPED, OUT_NESTED, OUT_PROSE } }

BOOKING_ID == <<"6", "6", "5", "f", "1", "c", "0", "f", "f", "e", "e", "0", "1", "2", "3", "4", "5", "6", "7", "8", "9", "a", "b", "c">>

SaveOutcomes == { None, JStr(BOOKING_ID) }

\* The identifier of a second insert.
BOOKING_ID_2 == <<"6", "6", "5", "f", "1", "c", "0", "f", "f", "e", "e", "0", "1", "2", "3", "4", "5", "6", "7", "8", "9", "a", "b", "d">>

\* The few inputs of the long-running session.
LongRunMessages == { MSG_HELLO, MSG_STROKE, MSG_LONG }

LongRunOutcomes ==
    { ServiceError, ServiceText(OUT_MILD), ServiceText(OUT_SUGGEST("symptom_collection")) }

\* Contexts a caller hands to process_message: a conversation of k exchanges
\* in a given state, with or without an assessment.
Exchanges(k) == [i \in 1..(2 * k) |-> IF i % 2 = 1 THEN "user" ELSE "assistant"]

SuppliedContexts ==
    { [create_initial_context EXCEPT
          !.history = Exchanges(k), !.state = state, !.severity = severity,
          !.symptoms = IF severity = None THEN <<>> ELSE << <<"c", "o", "u", "g", "h">> >>,
          !.department = IF severity = None THEN None ELSE JStr(<<"E", "N", "T">>)] :
        k \in (MAX_CONVERSATION_TURNS - 1)..(MAX_CONVERSATION_TURNS + 1),
        state \in {"symptom_collection", "collecting_details", "emergency"},
        severity \in {None, MODERATE} }

LimitOutcomes == { ServiceError, ServiceText(OUT_MILD), ServiceText(OUT_EMERGENCY) }

\* The values is_valid_transition is asked about: the nine states, the name
\* of no state, and what StateNamed makes of any other value.
StateValues == ConversationState \cup { "triage", "<no state>" }

\* The outputs and the saves of a session that books appointments.
BookingOutcomes ==
    { ServiceText(t) : t \in { OUT_SUGGEST("symptom_collection"), OUT_MILD, OUT_BOOKING_REQUEST,
                               OUT_DETAILS, OUT_SENTINELS,
                               OUT_SUGGEST("booking_confirmation") } }

BookingSaves == { None, JStr(BOOKING_ID), JStr(BOOKING_ID_2) }

\* The outputs of a session in which a scanner match, an emergency flag, an
\* intent switch and a suggested state compete.
PriorityOutcomes ==
    { ServiceText(t) : t \in { OUT_SUGGEST("greeting"), OUT_SUGGEST("symptom_collection"),
                               OUT_SUGGEST("severity_assessment"), OUT_SWITCH,
                               OUT_FLAG_SWITCH, OUT_CRITICAL_SWITCH } }

\* The outputs of a session that reports symptoms.
SymptomOutcomes ==
    { ServiceError }
    \cup { ServiceText(t) : t \in { OUT_ASSESSED, OUT_MORE_SYMPTOMS, OUT_NO_SYMPTOMS } }

\* The values of "intent" the prompt asks the service to choose from.
Intents ==
    { <<"g", "r", "e", "e", "t", "i", "n", "g">>, <<"s", "y", "m", "p", "t", "o", "m", "_", "r", "e", "p", "o", "r", "t">>, <<"c", "l", "a", "r", "i", "f", "i", "c", "a", "t", "i", "o", "n", "_", "r", "e", "s", "p", "o", "n", "s", "e">>, <<"b", "o", "o", "k", "i", "n", "g", "_", "r", "e", "q", "u", "e", "s", "t">>,
      <<"p", "r", "o", "v", "i", "d", "i", "n", "g", "_", "d", "e", "t", "a", "i", "l", "s">>, <<"c", "o", "n", "f", "i", "r", "m", "a", "t", "i", "o", "n">>, <<"c", "a", "n", "c", "e", "l", "l", "a", "t", "i", "o", "n">>, <<"o", "t", "h", "e", "r">> }

OUT_INTENT(intent) == <<"{", "\"", "r", "e", "s", "p", "o", "n", "s", "e", "\"", ":", " ", "\"", "o", "k", "\"", ",", " ", "\"", "i", "n", "t", "e", "n", "t", "\"", ":", " ", "\"">> \o intent \o <<"\"", "}">>

\* A suggestion that names no state.
OUT_SUGGEST_UNKNOWN == <<"{", "\"", "r", "e", "s", "p", "o", "n", "s", "e", "\"", ":", " ", "\"", "o", "k", "\"", ",", " ", "\"", "s", "u", "g", "g", "e", "s", "t", "e", "d", "_", "n", "e", "x", "t", "_", "s", "t", "a", "t", "e", "\"", ":", " ", "\"", "t", "r", "i", "a", "g", "e", "\"", "}">>

OUT_CRITICAL == <<"{", "\"", "r", "e", "s", "p", "o", "n", "s", "e", "\"", ":", " ", "\"", "u", "r", "g", "e", "n", "t", "\"", ",", " ", "\"", "s", "e", "v", "e", "r", "i", "t", "y", "\"", ":", " ", "\"", "c", "r", "i", "t", "i", "c", "a", "l", "\"", "}">>

\* An emergency flag on a Result that also confirms a booking.
OUT_FLAG_BOOK ==
    <<"{", "\"", "r", "e", "s", "p", "o", "n", "s", "e", "\"", ":", " ", "\"", "c", "a", "l", "l", " ", "n", "o", "w", "\"", ",", " ", "\"", "i", "s", "_", "e", "m", "e", "r", "g", "e", "n", "c", "y", "\"", ":", " ", "t", "r", "u", "e", ",", " ", "\"", "i", "n", "t", "e", "n", "t", "\"", ":", " ", "\"", "c", "a", "n", "c", "e", "l", "l", "a", "t", "i", "o", "n", "\"", ",", " ", "\"", "s", "u", "g", "g", "e", "s", "t", "e", "d", "_", "n", "e", "x", "t", "_", "s", "t", "a", "t", "e", "\"", ":", " ", "\"", "b", "o", "o", "k", "i", "n", "g", "_", "c", "o", "n", "f", "i", "r", "m", "a", "t", "i", "o", "n", "\"", "}">>

\* Two of the four appointment fields.
OUT_PARTIAL ==
    <<"{", "\"", "r", "e", "s", "p", "o", "n", "s", "e", "\"", ":", " ", "\"", "n", "o", "t", "e", "d", "\"", ",", " ", "\"", "s", "u", "g", "g", "e", "s", "t", "e", "d", "_", "n", "e", "x", "t", "_", "s", "t", "a", "t", "e", "\"", ":", " ", "\"", "c", "o", "l", "l", "e", "c", "t", "i", "n", "g", "_", "d", "e", "t", "a", "i", "l", "s", "\"", ",", " ", "\"", "c", "o", "l", "l", "e", "c", "t", "e", "d", "_", "i", "n", "f", "o", "\"", ":", " ", "{", "\"", "p", "a", "t", "i", "e", "n", "t", "_", "n", "a", "m", "e", "\"", ":", " ", "\"", "A", "l", "\"", ",", " ", "\"", "p", "r", "e", "f", "e", "r", "r", "e", "d", "_", "d", "a", "t", "e", "\"", ":", " ", "\"", "M", "o", "n", "\"", "}", "}">>

\* The outputs of a session that moves through the states by suggestions,
\* by intents and by emergency flags.
FlowOutcomes ==
    { ServiceText(OUT_SUGGEST(s)) : s \in SuggestedStates }
    \cup { ServiceText(OUT_INTENT(intent)) : intent \in Intents }
    \cup { ServiceText(t) : t \in { OUT_SUGGEST_UNKNOWN, OUT_MILD, OUT_DETAILS, OUT_PARTIAL,
                                    OUT_EMERGENCY,
                                    OUT_CRITICAL, OUT_FLAG_SWITCH, OUT_CRITICAL_SWITCH,
                                    OUT_FLAG_BOOK } }

(***************************************************************************)
(* Raw payloads for the validator: an object of up to three fields, bare,  *)
(* fenced, inside prose, or cut short.                                     *)
(***************************************************************************)

ResponseFields ==
    { <<>>,
      <<"\"", "r", "e", "s", "p", "o", "n", "s", "e", "\"", ":", " ", "\"", "\"">>,
      <<"\"", "r", "e", "s", "p", "o", "n", "s", "e", "\"", ":", " ", "n", "u", "l", "l">>,
      <<"\"", "r", "e", "s", "p", "o", "n", "s", "e", "\"", ":", " ", "\"", "R", "e", "s", "t", " ", "w", "e", "l", "l", "\"">>,
      <<"\"", "r", "e", "s", "p", "o", "n", "s", "e", "\"", ":", " ", "\"", "{", "\\", "\"", "s", "e", "v", "e", "r", "i", "t", "y", "\\", "\"", ":", " ", "\\", "\"", "m", "i", "l", "d", "\\", "\"", "}", "\"">>,
      <<"\"", "r", "e", "s", "p", "o", "n", "s", "e", "\"", ":", " ", "\"", "s", "e", "e", " ", "\\", "\"", "s", "e", "v", "e", "r", "i", "t", "y", "\\", "\"", ":", " ", "a", "n", "d", " ", "\\", "\"", "i", "s", "_", "e", "m", "e", "r", "g", "e", "n", "c", "y", "\\", "\"", ":", " ", "h", "e", "r", "e", "\"">> }

DepartmentFields ==
    { <<>>,
      <<"\"", "r", "e", "c", "o", "m", "m", "e", "n", "d", "e", "d", "_", "d", "e", "p", "a", "r", "t", "m", "e", "n", "t", "\"", ":", " ", "\"", "E", "N", "T", "\"">>,
      <<"\"", "r", "e", "c", "o", "m", "m", "e", "n", "d", "e", "d", "_", "d", "e", "p", "a", "r", "t", "m", "e", "n", "t", "\"", ":", " ", "\"", "\\", "\"", "r", "e", "s", "p", "o", "n", "s", "e", "\\", "\"", ":", " ", "\\", "\"", "s", "e", "v", "e", "r", "i", "t", "y", "\\", "\"", ":", "\"">> }

SymptomFields ==
    { <<>>,
      <<"\"", "e", "x", "t", "r", "a", "c", "t", "e", "d", "_", "s", "y", "m", "p", "t", "o", "m", "s", "\"", ":", " ", "[", "\"", "c", "o", "u", "g", "h", "\"", "]">>,
      <<"\"", "e", "x", "t", "r", "a", "c", "t", "e", "d", "_", "s", "y", "m", "p", "t", "o", "m", "s", "\"", ":", " ", "[", "\"", "\\", "\"", "i", "s", "_", "e", "m", "e", "r", "g", "e", "n", "c", "y", "\\", "\"", ":", "\"", ",", " ", "\"", "\\", "\"", "s", "e", "v", "e", "r", "i", "t", "y", "\\", "\"", ":", "\"", "]">> }

\* The object with the given fields, the empty ones left out.
ObjectOf(fields) ==
    <<"{">> \o Join(<<",", " ">>, SelectSeq(fields, LAMBDA f : Len(f) > 0)) \o <<"}">>

Wrappings == { "bare", "fenced", "prose", "cut" }

Wrapped(wrapping, object) ==
    CASE wrapping = "bare" -> object
      [] wrapping = "fenced" -> Fence \o <<"j", "s", "o", "n", "\n">> \o object \o <<"\n">> \o Fence
      [] wrapping = "prose" -> <<"H", "e", "r", "e", " ", "y", "o", "u", " ", "g", "o", ":", " ">> \o object \o <<" ", "A", "n", "y", "t", "h", "i", "n", "g", " ", "e", "l", "s", "e", "?">>
      [] wrapping = "cut" -> SubSeq(object, 1, Len(object) - 1)

RawPayloads ==
    { Wrapped(w, ObjectOf(<< r, d, s >>)) :
        w \in Wrappings, r \in ResponseFields, d \in DepartmentFields, s \in SymptomFields }

ValidatorOutcomes == { ServiceError } \cup { ServiceText(raw) : raw \in RawPayloads }

\* Payloads whose response the validator keeps or replaces, with and without
\* an emergency flag, a department, a severity and symptoms.
SubstitutePayloads ==
    { ObjectOf(<< r, e, d, v, s >>) :
        r \in { <<>>, <<"\"", "r", "e", "s", "p", "o", "n", "s", "e", "\"", ":", " ", "\"", "\"">>, <<"\"", "r", "e", "s", "p", "o", "n", "s", "e", "\"", ":", " ", "\"", "R", "e", "s", "t", " ", "w", "e", "l", "l", "\"">>,
                <<"\"", "r", "e", "s", "p", "o", "n", "s", "e", "\"", ":", " ", "\"", "{", "\\", "\"", "s", "e", "v", "e", "r", "i", "t", "y", "\\", "\"", ":", " ", "\\", "\"", "m", "i", "l", "d", "\\", "\"", "}", "\"">> },
        e \in { <<>>, <<"\"", "i", "s", "_", "e", "m", "e", "r", "g", "e", "n", "c", "y", "\"", ":", " ", "t", "r", "u", "e">>, <<"\"", "i", "s", "_", "e", "m", "e", "r", "g", "e", "n", "c", "y", "\"", ":", " ", "f", "a", "l", "s", "e">> },
        d \in { <<>>, <<"\"", "r", "e", "c", "o", "m", "m", "e", "n", "d", "e", "d", "_", "d", "e", "p", "a", "r", "t", "m", "e", "n", "t", "\"", ":", " ", "\"", "E", "N", "T", "\"">> },
        v \in { <<>>, <<"\"", "s", "e", "v", "e", "r", "i", "t", "y", "\"", ":", " ", "\"", "m", "o", "d", "e", "r", "a", "t", "e", "\"">> },
        s \in { <<>>, <<"\"", "e", "x", "t", "r", "a", "c", "t", "e", "d", "_", "s", "y", "m", "p", "t", "o", "m", "s", "\"", ":", " ", "[", "\"", "c", "o", "u", "g", "h", "\"", "]">> } }

SubstituteOutcomes == { ServiceText(raw) : raw \in SubstitutePayloads }

\* Texts for the final pass: the raw payloads themselves and the responses the
\* validator returns for them.
FinalTexts ==
    RawPayloads
    \cup { DictGet(GeneratedResult(service), K_response, None).s : service \in ValidatorOutcomes }

\* The outputs of a session around the guards: symptoms with a department,
\* appointment details, and a failure of the service.
MergeOutcomes ==
    { ServiceError } \cup { ServiceText(t) : t \in { OUT_ASSESSED, OUT_DETAILS } }

\* The outputs of a session that goes on after an emergency and books.
RecoveryOutcomes ==
    { ServiceText(t) : t \in { OUT_EMERGENCY, OUT_SUGGEST("emergency"), OUT_SUGGEST("greeting"),
                               OUT_SUGGEST("symptom_collection"), OUT_BOOKING_REQUEST,
                               OUT_DETAILS, OUT_SUGGEST("booking_confirmation") } }

\* Every message and every service outcome of the specifications.
AllMessages == Messages \cup LongRunMessages

AllServiceOutcomes ==
    ServiceOutcomes \cup LongRunOutcomes \cup LimitOutcomes \cup ValidatorOutcomes
    \cup SymptomOutcomes \cup BookingOutcomes \cup PriorityOutcomes \cup FlowOutcomes

(***************************************************************************)
(* The two calls process_message makes on every turn.  Their values over   *)
(* the inputs of the specifications are tabulated once; on any other       *)
(* argument the body is evaluated.                                         *)
(***************************************************************************)

ScannedTexts == { UserMessage(str_strip(m)) : m \in AllMessages }

KeywordTable == [text \in ScannedTexts |-> MatchedKeywords(text)]

\* check_emergency_keywords(text)
check_emergency_keywords(text) ==
    IF text \in ScannedTexts THEN KeywordTable[text] ELSE MatchedKeywords(text)

GenerateTable == [service \in AllServiceOutcomes |-> GeneratedResult(service)]

\* LLMEngine.generate(context, user_message), for what the service does
generate(service) ==
    IF service \in AllServiceOutcomes THEN GenerateTable[service] ELSE GeneratedResult(service)

\* process_message answering a scanner match by itself, the service not
\* called and nothing merged.
ScannerShortCircuits(message, context0, service, saved, order) ==
    LET Raise(ctx, user_message) ==
            Outcome("fault", ctx, None, 1, 0, << UserEntry(user_message) >>)
        Step9(s8, user_message) ==
            IF ~s8.ok THEN Raise(s8.ctx, user_message)
            ELSE FinishTurn(s8, user_message, saved)
        Step8(s7, user_message, emergency_matches, llm_result) ==
            IF ~s7.ok THEN Raise(s7.ctx, user_message)
            ELSE Step9(DecideState(s7.ctx, llm_result, emergency_matches), user_message)
        Step5(s4, user_message, emergency_matches, llm_result) ==
            IF ~s4.ok THEN Raise(s4.ctx, user_message)
            ELSE Step8(UpdateAppointment(
                          UpdateDepartment(UpdateSeverity(s4.ctx, llm_result), llm_result),
                          llm_result),
                       user_message, emergency_matches, llm_result)
        Escalated(ctx, user_message, response) ==
            Outcome("returned", [ctx EXCEPT !.history = Append(@, "assistant")],
                    JStr(response), 0, 0,
                    << UserEntry(user_message), AssistantEntry(JStr(response)) >>)
        Step3(ctx1, user_message, emergency_matches) ==
            IF Len(emergency_matches) > 0
            THEN Escalated([ctx1 EXCEPT !.state = "emergency", !.is_emergency = TRUE,
                                        !.severity = CRITICAL],
                           user_message, _get_emergency_response(emergency_matches, ctx1))
            ELSE Step5(UpdateSymptoms(ctx1, generate(service), order),
                       user_message, emergency_matches, generate(service))
        Step0(stripped) ==
            IF Len(stripped) = 0
            THEN Outcome("returned", context0, JStr(EMPTY_MESSAGE_PROMPT), 0, 0, <<>>)
            ELSE IF TurnLimitReached(context0)
            THEN Outcome("returned", context0, JStr(TURN_LIMIT_MESSAGE), 0, 0, <<>>)
            ELSE Step3(AppendUserAndTrim(context0), UserMessage(stripped),
                       check_emergency_keywords(UserMessage(stripped)))
    IN  Step0(str_strip(message))

\* process_message(user_message, context), given what the service does when
\* called (service), what save_appointment returns when called (saved) and
\* the order list(existing) gives the symptom set (order).
process_message(message, context0, service, saved, order) ==
    LET Raise(ctx, user_message) ==
            Outcome("fault", ctx, None, 1, 0, << UserEntry(user_message) >>)
        Step9(s8, user_message) ==
            IF ~s8.ok THEN Raise(s8.ctx, user_message)
            ELSE FinishTurn(s8, user_message, saved)
        Step8(s7, user_message, emergency_matches, llm_result) ==
            IF ~s7.ok THEN Raise(s7.ctx, user_message)
            ELSE Step9(DecideState(s7.ctx, llm_result, emergency_matches), user_message)
        Step5(s4, user_message, emergency_matches, llm_result) ==
            IF ~s4.ok THEN Raise(s4.ctx, user_message)
            ELSE Step8(UpdateAppointment(
                          UpdateDepartment(UpdateSeverity(s4.ctx, llm_result), llm_result),
                          llm_result),
                       user_message, emergency_matches, llm_result)
        Step4(ctx1, user_message, emergency_matches, llm_result) ==
            Step5(UpdateSymptoms(ctx1, llm_result, order),
                  user_message, emergency_matches, llm_result)
        Step2(user_message) ==
            Step4(AppendUserAndTrim(context0), user_message,
                  check_emergency_keywords(user_message), generate(service))
        Step0(stripped) ==
            IF Len(stripped) = 0
            THEN Outcome("returned", context0, JStr(EMPTY_MESSAGE_PROMPT), 0, 0, <<>>)
            ELSE IF TurnLimitReached(context0)
            THEN Outcome("returned", context0, JStr(TURN_LIMIT_MESSAGE), 0, 0, <<>>)
            ELSE Step2(UserMessage(stripped))
    IN  Step0(str_strip(message))

(***************************************************************************)
(* The session: app.py holds one context per conversation, hands it to     *)
(* process_message with each message and replaces it by a fresh one on     *)
(* reset.  The variables:                                                  *)
(*   context  the conversation's context dict;                             *)
(*   result   what the latest call gave its caller;                        *)
(*   last     what the latest call was given: the message, what the        *)
(*            generation service did and what save_appointment returned    *)
(*            (NotCalled when the call never reached them); for a reset,   *)
(*            the state and the appointment of the context it replaced.    *)
(***************************************************************************)

NotCalled == [kind |-> "not called"]

\* The greeting of get_greeting(), one element of fixed prose.
GREETING == << "**Hello! Welcome to HealthAssist.** ... **How can I help you today?** Please describe your symptoms or concern." >>

\* A conversation starts with the context ctx: nothing was called yet.
Started(ctx) ==
    /\ context = ctx
    /\ result = [kind |-> "start", response |-> JStr(GREETING),
                 llm_calls |-> 0, save_calls |-> 0, appended |-> <<>>]
    /\ last = [op |-> "start", message |-> <<>>, service |-> NotCalled, saved |-> NotCalled]

\* What is kept of one call: the message, and what the service and the save
\* were seen to do.
CallRecord(message, service, saved, out) ==
    [op |-> "process_message", message |-> message,
     service |-> IF out.llm_calls = 1 THEN service ELSE NotCalled,
     saved |-> IF out.save_calls = 1 THEN saved ELSE NotCalled]

\* The same, with the state the context was in when the call was made.
CallRecordFrom(message, service, saved, out, ctx) ==
    [op |-> "process_message", message |-> message,
     service |-> IF out.llm_calls = 1 THEN service ELSE NotCalled,
     saved |-> IF out.save_calls = 1 THEN saved ELSE NotCalled,
     from |-> ctx.state]

\* One call process_message(message, context) of app.py's respond, for a
\* message of "messages", a service outcome of "services" and a persistence
\* outcome of "saves"; "traced" says which record of the call is kept.
Call(messages, services, saves, traced) ==
    \E message \in messages, service \in services, saved \in saves :
        \E order \in ListsOf(MergedSymptoms(context, generate(service))) :
            \E out \in { process_message(message, context, service, saved, order) } :
                /\ context' = out.ctx
                /\ result' = [kind |-> out.kind, response |-> out.response,
                              llm_calls |-> out.llm_calls, save_calls |-> out.save_calls,
                              appended |-> out.appended]
                /\ last' = IF traced
                           THEN CallRecordFrom(message, service, saved, out, context)
                           ELSE CallRecord(message, service, saved, out)

ProcessMessage(messages, services, saves) == Call(messages, services, saves, FALSE)

\* The same call, its record keeping the state it started from.
TracedMessage(messages, services, saves) == Call(messages, services, saves, TRUE)

\* What a reset records of the context it replaces.
Discarded(ctx) == [state |-> ctx.state, appointment |-> ctx.appointment]

\* reset_conversation() with the appointment of the old context carried over.
ResetKeepingAppointment ==
    /\ context' = [create_initial_context EXCEPT !.appointment = context.appointment]
    /\ result' = [kind |-> "reset", response |-> JStr(GREETING),
                  llm_calls |-> 0, save_calls |-> 0, appended |-> <<>>]
    /\ last' = [op |-> "reset", message |-> <<>>, service |-> NotCalled, saved |-> NotCalled,
                discarded |-> Discarded(context)]

\* reset_conversation() of app.py
Reset ==
    /\ context' = create_initial_context
    /\ result' = [kind |-> "reset", response |-> JStr(GREETING),
                  llm_calls |-> 0, save_calls |-> 0, appended |-> <<>>]
    /\ last' = [op |-> "reset", message |-> <<>>, service |-> NotCalled, saved |-> NotCalled,
                discarded |-> Discarded(context)]

(***************************************************************************)
(* Spec: conversations of up to MaxTurns messages from a fresh context,    *)
(* over the whole input sets.                                              *)
(***************************************************************************)

\* The number of messages of one conversation that Spec follows.
MaxTurns == 4

Init == Started(create_initial_context)

Turn ==
    /\ TurnCount(context) < MaxTurns
    /\ ProcessMessage(Messages, ServiceOutcomes, SaveOutcomes)

Next == Turn \/ Reset

Spec == Init /\ [][Next]_vars

(***************************************************************************)
(* SpecLongRun: one conversation of any length from a fresh context, over  *)
(* a few inputs.                                                           *)
(***************************************************************************)

LongRunTurn == ProcessMessage(LongRunMessages, LongRunOutcomes, { None })

NextLongRun == LongRunTurn \/ Reset

SpecLongRun == Init /\ [][NextLongRun]_vars

(***************************************************************************)
(* SpecSupplied: process_message on contexts its caller supplies, around   *)
(* the turn limit.                                                         *)
(***************************************************************************)

InitSupplied == \E ctx \in SuppliedContexts : Started(ctx)

SuppliedTurn == ProcessMessage(Messages \cup { MSG_EMPTY }, LimitOutcomes, SaveOutcomes)

NextSupplied == SuppliedTurn

SpecSupplied == InitSupplied /\ [][NextSupplied]_vars

(***************************************************************************)
(* SpecValidator: generate on each raw payload.                            *)
(***************************************************************************)

InitValidator ==
    /\ context = create_initial_context
    /\ result = [kind |-> "pending"]
    /\ \E service \in ValidatorOutcomes :
            last = [op |-> "generate", message |-> <<>>, service |-> service,
                    saved |-> NotCalled]

Validate ==
    /\ result.kind = "pending"
    /\ result' = [kind |-> "generated", value |-> generate(last.service)]
    /\ UNCHANGED << context, last >>

NextValidator == Validate

SpecValidator == InitValidator /\ [][NextValidator]_vars

(***************************************************************************)
(* SpecSymptoms: one conversation of any length in which the service       *)
(* reports symptoms: new ones, known ones in another spelling, none.       *)
(***************************************************************************)

SymptomTurn == ProcessMessage({ MSG_HELLO }, SymptomOutcomes, { None })

SpecSymptoms == Init /\ [][SymptomTurn \/ Reset]_vars

(***************************************************************************)
(* SpecBooking: one conversation of any length that collects appointment   *)
(* details and books, more than once if the service leads it there.        *)
(***************************************************************************)

BookingTurn == ProcessMessage({ MSG_HELLO }, BookingOutcomes, BookingSaves)

SpecBooking == Init /\ [][BookingTurn \/ Reset]_vars

(***************************************************************************)
(* SpecTransitions: is_valid_transition on every pair of state values.     *)
(***************************************************************************)

CheckTransition ==
    /\ \E current_state \in StateValues, next_state \in StateValues :
            /\ last' = [op |-> "is_valid_transition", current_state |-> current_state,
                        next_state |-> next_state]
            /\ result' = [kind |-> "checked",
                          value |-> is_valid_transition(current_state, next_state)]
    /\ UNCHANGED context

SpecTransitions == Init /\ [][CheckTransition]_vars

(***************************************************************************)
(* SpecPriority: one conversation of any length in which the four sources  *)
(* of the next state meet in the same turn.                                *)
(***************************************************************************)

PriorityTurn == ProcessMessage({ MSG_HELLO, MSG_STROKE }, PriorityOutcomes, { None })

SpecPriority == Init /\ [][PriorityTurn \/ Reset]_vars



(***************************************************************************)
(* SpecFlow: one conversation of any length that the service leads through *)
(* the states, each call recorded with the state it started from.          *)
(***************************************************************************)

FlowTurn == TracedMessage({ MSG_HELLO }, FlowOutcomes, { None })

SpecFlow == Init /\ [][FlowTurn \/ Reset]_vars

(***************************************************************************)
(* SpecSaves: one conversation of any length that reaches the booking step *)
(* with and without all the details, the save succeeding or failing.       *)
(***************************************************************************)

SaveTurn ==
    TracedMessage({ MSG_HELLO },
                  BookingOutcomes \cup { ServiceText(OUT_SUGGEST("collecting_details")) },
                  SaveOutcomes)

SpecSaves == Init /\ [][SaveTurn \/ Reset]_vars

(***************************************************************************)
(* SpecSanitizer: the final pass of process_message on each text.          *)
(***************************************************************************)

InitSanitizer ==
    /\ context = create_initial_context
    /\ result = [kind |-> "pending"]
    /\ \E text \in FinalTexts : last = [op |-> "_sanitize_response", text |-> text]

Sanitize ==
    /\ result.kind = "pending"
    /\ result' = [kind |-> "sanitized", value |-> _sanitize_response(last.text)]
    /\ UNCHANGED << context, last >>

SpecSanitizer == InitSanitizer /\ [][Sanitize]_vars

(***************************************************************************)
(* SpecSubstitute: generate on payloads whose response the validator has   *)
(* to replace, and on some it keeps.                                       *)
(***************************************************************************)

InitSubstitute ==
    /\ context = create_initial_context
    /\ result = [kind |-> "pending"]
    /\ \E service \in SubstituteOutcomes :
            last = [op |-> "generate", message |-> <<>>, service |-> service,
                    saved |-> NotCalled]

SpecSubstitute == InitSubstitute /\ [][Validate]_vars

(***************************************************************************)
(* SpecMerge: process_message on contexts its caller supplies, around the  *)
(* turn limit, with messages the scanner matches and Results that carry    *)
(* symptoms, a department and appointment details.                         *)
(***************************************************************************)

MergeTurn == ProcessMessage(Messages \cup { MSG_EMPTY }, MergeOutcomes, { None })

SpecMerge == InitSupplied /\ [][MergeTurn]_vars

(***************************************************************************)
(* SpecRecovery: one conversation of any length that can meet an           *)
(* emergency, be led back to greeting and go on to book an appointment.    *)
(***************************************************************************)

RecoveryTurn == ProcessMessage({ MSG_HELLO, MSG_STROKE }, RecoveryOutcomes, SaveOutcomes)

SpecRecovery == Init /\ [][RecoveryTurn \/ Reset]_vars
(***************************************************************************)
(* The claims.  Words they share:                                          *)
(***************************************************************************)

\* The message holds a phrase of the emergency vocabulary, in any casing.
HoldsEmergencyPhrase(message) ==
    \E i \in 1..Len(ALL_EMERGENCY_KEYWORDS) :
        Contains(str_lower(message), ALL_EMERGENCY_KEYWORDS[i])

\* The latest step was a call of process_message that reached the service.
Processed == last.op = "process_message" /\ last.service # NotCalled

\* The Result flags an emergency or a critical severity.
FlagsEmergency(llm_result) ==
    \/ Truthy(DictGet(llm_result, K_is_emergency, None))
    \/ DictGet(llm_result, K_severity, None) = CRITICAL

\* A text that json.loads turns into an object or an array.
ParsesAsStructure(text) ==
    LET Structured(data) == data.ok /\ (IsDict(data.v) \/ IsList(data.v))
    IN  Structured(json_loads(str_strip(text)))

\* Every field of the Result has the type the response schema gives it.
WellTyped(llm_result) ==
    LET StrOrNone(v) == v = None \/ IsStr(v)
        Symptoms(v) == IsList(v) /\ \A i \in 1..Len(v.xs) : IsStr(v.xs[i])
        Info(v) == IsDict(v) /\ \A i \in 1..Len(v.kv) : StrOrNone(v.kv[i][2])
    IN  /\ IsStr(DictGet(llm_result, K_response, None))
        /\ Symptoms(DictGet(llm_result, K_extracted_symptoms, None))
        /\ StrOrNone(DictGet(llm_result, K_severity, None))
        /\ DictGet(llm_result, K_is_emergency, None).t = "bool"
        /\ StrOrNone(DictGet(llm_result, K_recommended_department, None))
        /\ StrOrNone(DictGet(llm_result, K_intent, None))
        /\ Info(DictGet(llm_result, K_collected_info, None))
        /\ StrOrNone(DictGet(llm_result, K_suggested_next_state, None))

\* C1: a call of process_message whose message holds a phrase of the
\* emergency vocabulary, in any casing, returns with the context in state
\* emergency and severity critical, whatever the context and the service's
\* output were.
C1_EmergencyPhraseEscalates ==
    (last.op = "process_message" /\ HoldsEmergencyPhrase(last.message))
        => /\ result.kind = "returned"
           /\ context.state = "emergency"
           /\ context.severity = CRITICAL

\* C2: in state symptom_collection, with a Result that flags no emergency and
\* no critical severity, the message "I have chest pain and difficulty
\* breathing" ends the turn in state emergency with severity critical and a
\* response that tells the user to call the emergency services.
C2_ChestPainEscalates ==
    [][ ( /\ context.state = "symptom_collection"
          /\ last'.op = "process_message"
          /\ last'.message = MSG_CHEST
          /\ last'.service # NotCalled
          /\ ~FlagsEmergency(generate(last'.service)) )
        => ( /\ result'.kind = "returned"
             /\ context'.state = "emergency"
             /\ context'.severity = CRITICAL
             /\ IsStr(result'.response)
             /\ Contains(result'.response.s, << CALL_EMERGENCY_SERVICES >>) ) ]_vars

\* C3: every call of process_message returns a response and a context: with
\* a Result whose fields all have the types of the response schema, and with
\* either outcome of the save, no step of the turn raises.
C3_TurnsNeverFault ==
    (Processed /\ WellTyped(generate(last.service))) => result.kind = "returned"

\* C4: whatever path produced it, the response a call returns and appends to
\* history is a text, and never one that parses as a structured object.
C4_ResponseNeverStructured ==
    (last.op = "process_message" /\ result.kind = "returned")
        => /\ IsStr(result.response)
           /\ ~ParsesAsStructure(result.response.s)
           /\ \A i \in 1..Len(result.appended) :
                 result.appended[i].role = "assistant"
                    => result.appended[i].content = result.response

\* C4's case: the service's output carried a structured payload as its
\* response, and the call returned the clarification request in its place.
C4_Witness ==
    /\ last.op = "process_message"
    /\ last.service = ServiceText(OUT_NESTED)
    /\ result.kind = "returned"
    /\ result.response = JStr(CLARIFICATION_REQUEST)
    /\ Len(result.appended) = 2

\* C5: for every raw payload, the Result the validator returns has a
\* non-empty response text that does not parse as a structured payload and
\* holds fewer than two of the five field-name signatures.
C5_ValidatedResponseIsProse ==
    result.kind = "generated"
        => /\ IsStr(DictGet(result.value, K_response, None))
           /\ Len(DictGet(result.value, K_response, None).s) > 0
           /\ ~ParsesAsStructure(DictGet(result.value, K_response, None).s)
           /\ PatternMatches(DictGet(result.value, K_response, None).s) < 2

\* C6: when the booking step runs with all four appointment fields filled
\* and the save returns an identifier, the turn ends in state completed with
\* that identifier as booking_id and a response showing its last eight
\* characters, whatever the other fields of the context hold.
C6_SavedBookingConfirmed ==
    (last.op = "process_message" /\ result.save_calls = 1 /\ last.saved # None)
        => /\ result.kind = "returned"
           /\ context.state = "completed"
           /\ context.booking_id = last.saved
           /\ IsStr(result.response)
           /\ Contains(result.response.s, Suffix(last.saved.s, 8))

\* C7: when the booking step runs with all four appointment fields filled
\* and the save returns None, the turn ends in state completed, with
\* booking_id as it was before the turn and a response that carries the
\* manual-confirmation notice.
C7_UnsavedBookingCompletes ==
    [][ (last'.op = "process_message" /\ result'.save_calls = 1 /\ last'.saved = None)
        => ( /\ result'.kind = "returned"
             /\ context'.state = "completed"
             /\ context'.booking_id = context.booking_id
             /\ IsStr(result'.response)
             /\ Contains(result'.response.s, << MANUAL_CONFIRMATION_NOTICE >>) ) ]_vars

\* C7's case: a booking whose save returned None has just completed.
C7_Witness ==
    /\ last.op = "process_message"
    /\ result.save_calls = 1
    /\ last.saved = None
    /\ context.state = "completed"
    /\ \A i \in 1..Len(APPOINTMENT_KEYS) : Truthy(context.appointment[APPOINTMENT_KEYS[i]])

\* C8: from a fresh context, after any number of calls, the history a call
\* returns holds at most MAX_HISTORY entries.
C8_HistoryWithinWindow ==
    (last.op = "process_message" /\ result.kind = "returned")
        => Len(context.history) <= MAX_HISTORY

\* C9: with MAX_CONVERSATION_TURNS or more user entries in history, a call
\* with a non-empty message returns the limit message, calls neither the
\* service nor the save, and leaves every field of the context as it was,
\* even if the message holds an emergency phrase.
C9_TurnLimitFrame ==
    [][ ( /\ last'.op = "process_message"
          /\ TurnCount(context) >= MAX_CONVERSATION_TURNS
          /\ Len(str_strip(last'.message)) > 0 )
        => ( /\ result'.kind = "returned"
             /\ result'.response = JStr(TURN_LIMIT_MESSAGE)
             /\ result'.llm_calls = 0
             /\ result'.save_calls = 0
             /\ result'.appended = <<>>
             /\ context' = context ) ]_vars

\* C9's case: a message with an emergency phrase met the turn limit in a
\* context that is not in state emergency.
C9_Witness ==
    /\ last.op = "process_message"
    /\ HoldsEmergencyPhrase(last.message)
    /\ TurnCount(context) >= MAX_CONVERSATION_TURNS
    /\ result.response = JStr(TURN_LIMIT_MESSAGE)
    /\ context.state # "emergency"

\* C10: once an emergency override has set severity critical, a later turn
\* that leaves the context in state emergency does not lower the severity.
C10_NoDowngradeInEmergency ==
    [][ ( /\ context.state = "emergency"
          /\ context.severity = CRITICAL
          /\ last'.op = "process_message"
          /\ context'.state = "emergency" )
        => context'.severity = CRITICAL ]_vars

\* The symptoms of the context, as a set.
SymptomSet(ctx) == {ctx.symptoms[i] : i \in 1..Len(ctx.symptoms)}

\* C11: over any calls of process_message without a reset the symptoms only
\* grow: every symptom the context held before a call it still holds after
\* it, whatever extracted_symptoms the Result has, an empty list included.
C11_SymptomsOnlyGrow ==
    [][ last'.op = "process_message"
        => SymptomSet(context) \subseteq SymptomSet(context') ]_vars

\* C11's case: three symptoms were collected over several turns, and a turn
\* whose Result had an empty list of symptoms kept them all.
C11_Witness ==
    /\ last.op = "process_message"
    /\ last.service = ServiceText(OUT_NO_SYMPTOMS)
    /\ result.kind = "returned"
    /\ SymptomSet(context) = { <<"c", "o", "u", "g", "h">>, <<"f", "e", "v", "e", "r">>, <<"r", "a", "s", "h">> }

\* C12: the symptoms never hold an entry twice, a symptom that is already
\* there after lowercasing and trimming is not added again, and a second
\* turn with the same extracted_symptoms leaves the set as the first left it.
C12_SymptomMergeIdempotent ==
    [][ last'.op = "process_message"
        => /\ Cardinality(SymptomSet(context')) = Len(context'.symptoms)
           /\ ( /\ last.op = "process_message"
                /\ last'.service = last.service
                /\ result.kind = "returned"
                /\ result'.kind = "returned" )
              => ( /\ SymptomSet(context') = SymptomSet(context)
                   /\ Len(context'.symptoms) = Len(context.symptoms) ) ]_vars

\* C12's case: " FEVER " was merged into symptoms that held "fever", and
\* there is one entry for it.
C12_Witness ==
    /\ last.op = "process_message"
    /\ last.service = ServiceText(OUT_MORE_SYMPTOMS)
    /\ result.kind = "returned"
    /\ Len(context.symptoms) = 3
    /\ SymptomSet(context) = { <<"c", "o", "u", "g", "h">>, <<"f", "e", "v", "e", "r">>, <<"r", "a", "s", "h">> }

\* What the Result gives for an appointment field is absent, empty, null or
\* a null sentinel ("null" or "none" in any casing).
GivesNoValue(llm_result, key) ==
    LET Missing(value) ==
            \/ value = None
            \/ value = JStr(<<>>)
            \/ IsStr(value) /\ str_lower(value.s) \in { <<"n", "u", "l", "l">>, <<"n", "o", "n", "e">> }
        Given(collected_info) ==
            \/ ~IsDict(collected_info)
            \/ Missing(DictGet(collected_info, AppointmentKeySpelling[key], None))
    IN  Given(DictGet(llm_result, K_collected_info, None))

\* C13: for each of the four appointment fields, a turn whose Result gives
\* the field as absent, empty, null or a null sentinel leaves the field as it
\* was, and over the turns of a session a field that holds a value never
\* goes back to empty.
C13_AppointmentFieldsKept ==
    [][ (last'.op = "process_message" /\ last'.service # NotCalled)
        => \A i \in 1..Len(APPOINTMENT_KEYS) :
              /\ GivesNoValue(generate(last'.service), APPOINTMENT_KEYS[i])
                    => context'.appointment[APPOINTMENT_KEYS[i]]
                        = context.appointment[APPOINTMENT_KEYS[i]]
              /\ Truthy(context.appointment[APPOINTMENT_KEYS[i]])
                    => Truthy(context'.appointment[APPOINTMENT_KEYS[i]]) ]_vars

\* C13's case: all four fields were collected, and a turn whose Result gave
\* them as a sentinel, empty and null has kept them.
C13_Witness ==
    /\ last.op = "process_message"
    /\ last.service = ServiceText(OUT_SENTINELS)
    /\ result.kind = "returned"
    /\ context.appointment.patient_name = JStr(<<"A", "l">>)
    /\ context.appointment.preferred_date = JStr(<<"M", "o", "n">>)
    /\ context.appointment.preferred_time = JStr(<<"9", "a", "m">>)
    /\ context.appointment.contact_number = JStr(<<"5", "5", "5">>)

\* C14: in a session without reset booking_id is set at most once: once it
\* holds an identifier no later turn changes it, a later booking included.
C14_BookingIdSetOnce ==
    [][ (last'.op = "process_message" /\ IsStr(context.booking_id))
        => context'.booking_id = context.booking_id ]_vars

\* C15: is_valid_transition(current, next) is true exactly when next is
\* emergency or next is in the table's set for current; so emergency is
\* valid from every value, and from a value that is no state only emergency
\* is valid.
C15_ValidIffEmergencyOrListed ==
    last.op = "is_valid_transition"
        => /\ result.value
                <=> ( \/ last.next_state = "emergency"
                      \/ /\ last.current_state \in DOMAIN VALID_TRANSITIONS
                         /\ last.next_state \in VALID_TRANSITIONS[last.current_state] )
           /\ last.next_state = "emergency" => result.value
           /\ last.current_state \notin ConversationState
                => (result.value <=> last.next_state = "emergency")

\* C15's case: emergency was found valid from a value that is no state.
C15_Witness ==
    /\ last.op = "is_valid_transition"
    /\ last.current_state = "triage"
    /\ last.next_state = "emergency"
    /\ result.value

\* C16: a reset in any state gives a context equal to the initial one: state
\* greeting, no symptoms, no severity, no department, is_emergency false,
\* the four appointment fields empty, an empty history and no booking_id.
C16_ResetGivesInitialContext ==
    last.op = "reset"
        => /\ context = create_initial_context
           /\ context.state = "greeting"
           /\ context.symptoms = <<>>
           /\ context.severity = None
           /\ context.department = None
           /\ context.is_emergency = FALSE
           /\ \A i \in 1..Len(APPOINTMENT_KEYS) : context.appointment[APPOINTMENT_KEYS[i]] = None
           /\ context.history = <<>>
           /\ context.booking_id = None

\* C16's case: the reset came in state collecting_details with appointment
\* fields filled, and the new context has none of them.
C16_Witness ==
    /\ last.op = "reset"
    /\ last.discarded.state = "collecting_details"
    /\ last.discarded.appointment.patient_name = JStr(<<"A", "l">>)
    /\ context.appointment.patient_name = None

\* C17: a call with an empty or whitespace-only message returns the fixed
\* prompt, calls neither the service nor the save and leaves every field of
\* the context, history included, as it was; the turn limit comes after it.
C17_EmptyMessageFrame ==
    [][ ( /\ last'.op = "process_message"
          /\ \A i \in 1..Len(last'.message) : IsSpace(last'.message[i]) )
        => ( /\ result'.kind = "returned"
             /\ result'.response = JStr(EMPTY_MESSAGE_PROMPT)
             /\ result'.llm_calls = 0
             /\ result'.save_calls = 0
             /\ result'.appended = <<>>
             /\ context' = context ) ]_vars

\* C17's case: a whitespace-only message in a context at the turn limit got
\* the prompt, not the limit message.
C17_Witness ==
    /\ last.op = "process_message"
    /\ last.message = MSG_BLANK
    /\ TurnCount(context) >= MAX_CONVERSATION_TURNS
    /\ result.response = JStr(EMPTY_MESSAGE_PROMPT)

\* C18: the emergency scan does not depend on the service: in a turn whose
\* service call fails or returns output that no attempt parses, with a
\* message that holds a listed phrase, the turn ends in state emergency with
\* is_emergency true, severity critical and the emergency response.
C18_ScanSurvivesServiceFailure ==
    ( /\ last.op = "process_message"
      /\ HoldsEmergencyPhrase(last.message)
      /\ last.service # NotCalled
      /\ generate(last.service) = _fallback_response )
        => /\ result.kind = "returned"
           /\ context.state = "emergency"
           /\ context.is_emergency
           /\ context.severity = CRITICAL
           /\ IsStr(result.response)
           /\ Contains(result.response.s, << CALL_EMERGENCY_SERVICES >>)

\* C19: when the service fails (an error, or output that no attempt parses)
\* and the scan matches no emergency phrase, the turn returns the fallback
\* text and changes nothing in the context but history, which gains the
\* user's message and the response.
C19_ServiceFailureFrame ==
    [][ ( /\ last'.op = "process_message"
          /\ last'.service # NotCalled
          /\ generate(last'.service) = _fallback_response
          /\ check_emergency_keywords(UserMessage(str_strip(last'.message))) = <<>> )
        => ( /\ result'.kind = "returned"
             /\ result'.response = JStr(FALLBACK_TEXT)
             /\ result'.appended = << UserEntry(str_strip(last'.message)),
                                      AssistantEntry(JStr(FALLBACK_TEXT)) >>
             /\ Len(context'.history) >= 2
             /\ context'.history[Len(context'.history) - 1] = "user"
             /\ context'.history[Len(context'.history)] = "assistant"
             /\ context'.state = context.state
             /\ context'.symptoms = context.symptoms
             /\ context'.severity = context.severity
             /\ context'.department = context.department
             /\ context'.is_emergency = context.is_emergency
             /\ context'.appointment = context.appointment
             /\ context'.booking_id = context.booking_id ) ]_vars

\* C19's case: the service failed in the middle of a booking, and the state,
\* the assessment and the appointment are what they were.
C19_Witness ==
    /\ last.op = "process_message"
    /\ last.service = ServiceError
    /\ result.response = JStr(FALLBACK_TEXT)
    /\ context.state = "collecting_details"
    /\ context.appointment.patient_name = JStr(<<"A", "l">>)

\* The state a turn ends in when nothing overrides the Result's suggestion.
SuggestedOrCurrent(current_state, llm_result) ==
    LET Chosen(suggested) ==
            IF Truthy(suggested) /\ is_valid_transition(current_state, StateNamed(suggested))
            THEN StateNamed(suggested)
            ELSE current_state
    IN  Chosen(DictGet(llm_result, K_suggested_next_state, None))

\* The priority of C20 for a turn from the state current_state with the
\* Result llm_result, for a scanner that matched or did not.
DecidedByPriority(current_state, matched, llm_result, next_state, response) ==
    LET switched == _detect_intent_switch(current_state, DictGet(llm_result, K_intent, None))
    IN  /\ matched
            => /\ next_state = "emergency"
               /\ IF Truthy(DictGet(llm_result, K_is_emergency, None))
                  THEN response = DictGet(llm_result, K_response, None)
                  ELSE Contains(response.s, << CALL_EMERGENCY_SERVICES >>)
        /\ (~matched /\ FlagsEmergency(llm_result))
            => /\ next_state = "emergency"
               /\ response = DictGet(llm_result, K_response, None)
        /\ (~matched /\ ~FlagsEmergency(llm_result) /\ switched)
            => /\ next_state = _resolve_intent_switch(DictGet(llm_result, K_intent, None))
               /\ response = DictGet(llm_result, K_response, None)
        /\ ( /\ ~matched /\ ~FlagsEmergency(llm_result) /\ ~switched
             /\ SuggestedOrCurrent(current_state, llm_result) # "booking_confirmation" )
            => /\ next_state = SuggestedOrCurrent(current_state, llm_result)
               /\ response = DictGet(llm_result, K_response, None)

\* C20: the state and the response of a turn follow a strict priority: a
\* scanner match forces emergency whatever the Result says; otherwise an
\* emergency flag or a critical severity of the Result forces emergency;
\* otherwise a detected intent switch forces its mapped state, even when the
\* suggested state is another legal transition; only otherwise does the
\* suggested state count.
C20_StateByPriority ==
    [][ (last'.op = "process_message" /\ last'.service # NotCalled
                                      /\ result'.kind = "returned")
        => DecidedByPriority(
              context.state,
              check_emergency_keywords(UserMessage(str_strip(last'.message))) # <<>>,
              generate(last'.service),
              context'.state,
              result'.response) ]_vars

\* C20's case: in state symptom_collection a booking request that suggested
\* severity_assessment, a legal transition, led to appointment_offer.
C20_Witness ==
    /\ last.op = "process_message"
    /\ last.service = ServiceText(OUT_SWITCH)
    /\ last.message = MSG_HELLO
    /\ result.kind = "returned"
    /\ Len(context.history) = 4
    /\ context.state = "appointment_offer"


\* The Result's suggestion, as the state it names ("<no state>" for null, for
\* a name of no state and for any other value).
Suggested(llm_result) == StateNamed(DictGet(llm_result, K_suggested_next_state, None))

\* Nothing overrides the suggestion in a turn on this message, from this
\* state, with this Result: the scanner matches nothing, the Result flags no
\* emergency and no critical severity, and no intent switch is detected.
NothingOverrides(message, current_state, llm_result) ==
    /\ check_emergency_keywords(UserMessage(str_strip(message))) = <<>>
    /\ ~FlagsEmergency(llm_result)
    /\ ~_detect_intent_switch(current_state, DictGet(llm_result, K_intent, None))

\* The states a turn can end in once the suggestion s was adopted: s itself,
\* or what the booking step makes of booking_confirmation.
AdoptedAs(s) ==
    IF s = "booking_confirmation" THEN { "collecting_details", "completed" } ELSE { s }

\* C21: in a turn that nothing overrides, the state changes only to the
\* suggested state and only if is_valid_transition allows it from the
\* current state; with a suggestion that is null, names no state or is not
\* allowed from the current state, the turn returns its response and the
\* state is the one before the turn.
C21_SuggestionAdoptedOnlyIfValid ==
    [][ ( /\ last'.op = "process_message"
          /\ last'.service # NotCalled
          /\ NothingOverrides(last'.message, context.state, generate(last'.service)) )
        => ( /\ result'.kind = "returned"
             /\ IsStr(result'.response)
             /\ context'.state # context.state
                  => /\ is_valid_transition(context.state, Suggested(generate(last'.service)))
                     /\ context'.state \in AdoptedAs(Suggested(generate(last'.service)))
             /\ ( \/ Suggested(generate(last'.service)) = "<no state>"
                  \/ Suggested(generate(last'.service)) \notin VALID_TRANSITIONS[context.state]
                                                               \cup { "emergency" } )
                  => context'.state = context.state ) ]_vars

\* C21's case: in state symptom_collection the Result suggested
\* booking_confirmation, which is not allowed from there; the turn returned
\* the Result's response and the state stayed.
C21_Witness ==
    /\ last.op = "process_message"
    /\ last.from = "symptom_collection"
    /\ last.service = ServiceText(OUT_SUGGEST("booking_confirmation"))
    /\ result.kind = "returned"
    /\ result.response = JStr(<<"o", "k">>)
    /\ context.state = "symptom_collection"

\* The states in which an intent conflicts, as C22 lists them.
ConflictStates(intent) ==
    CASE intent = <<"s", "y", "m", "p", "t", "o", "m", "_", "r", "e", "p", "o", "r", "t">> ->
            { "collecting_details", "booking_confirmation", "appointment_offer" }
      [] intent = <<"b", "o", "o", "k", "i", "n", "g", "_", "r", "e", "q", "u", "e", "s", "t">> -> { "symptom_collection", "severity_assessment" }
      [] intent = <<"c", "a", "n", "c", "e", "l", "l", "a", "t", "i", "o", "n">> -> { "collecting_details", "booking_confirmation" }
      [] OTHER -> {}

\* The state a conflict of the intent forces, as C22 lists them.
ForcedState(intent) ==
    CASE intent = <<"s", "y", "m", "p", "t", "o", "m", "_", "r", "e", "p", "o", "r", "t">> -> "symptom_collection"
      [] intent = <<"b", "o", "o", "k", "i", "n", "g", "_", "r", "e", "q", "u", "e", "s", "t">> -> "appointment_offer"
      [] intent = <<"c", "a", "n", "c", "e", "l", "l", "a", "t", "i", "o", "n">> -> "completed"
      [] OTHER -> "<no state>"

\* C22: a conflict is detected for exactly the listed pairs of intent and
\* state, on every pair of the eight intents and the nine states; in a turn
\* without a scanner match and without an emergency flag or critical
\* severity, a conflict on the state the turn starts from forces the state
\* mapped to the intent, and every other pair, intent greeting included,
\* leaves the state to the suggestion: without one it is unchanged.
C22_IntentSwitchPairs ==
    /\ \A intent \in Intents, state \in ConversationState :
            _detect_intent_switch(state, JStr(intent)) <=> state \in ConflictStates(intent)
    /\ [][ ( /\ last'.op = "process_message"
             /\ last'.service # NotCalled
             /\ check_emergency_keywords(UserMessage(str_strip(last'.message))) = <<>>
             /\ ~FlagsEmergency(generate(last'.service))
             /\ IsStr(DictGet(generate(last'.service), K_intent, None)) )
           => ( /\ result'.kind = "returned"
                /\ IF context.state
                        \in ConflictStates(DictGet(generate(last'.service), K_intent, None).s)
                   THEN context'.state
                        = ForcedState(DictGet(generate(last'.service), K_intent, None).s)
                   ELSE context'.state \in
                        AdoptedAs(SuggestedOrCurrent(context.state, generate(last'.service))) ) ]_vars

\* C22's case: in state appointment_offer the Result reported symptoms, and
\* the turn ended in symptom_collection though the Result suggested nothing.
C22_Witness ==
    /\ last.op = "process_message"
    /\ last.from = "appointment_offer"
    /\ last.service = ServiceText(OUT_INTENT(<<"s", "y", "m", "p", "t", "o", "m", "_", "r", "e", "p", "o", "r", "t">>))
    /\ result.kind = "returned"
    /\ context.state = "symptom_collection"

\* What the escalation message says was described: the known symptoms, or
\* without any the first three matched phrases.
Described(ctx, emergency_matches) ==
    IF ctx.symptoms # <<>> THEN Join(<<",", " ">>, ctx.symptoms)
    ELSE Join(<<",", " ">>, Prefix(emergency_matches, 3))

\* The response is the escalation message for these matches, and not the text.
EscalationInPlaceOf(response, text, ctx, emergency_matches) ==
    /\ IsStr(response)
    /\ response # text
    /\ Contains(response.s, << CALL_EMERGENCY_SERVICES >>)
    /\ Contains(response.s, Described(ctx, emergency_matches))

\* C23: a returned turn whose message the scanner matched has, for a Result
\* that does not flag an emergency, the synthesized escalation message as its
\* response and not the Result's text, and for a Result that flags one the
\* Result's own text.
C23_ScannerOverridesResponse ==
    ( /\ last.op = "process_message"
      /\ last.service # NotCalled
      /\ result.kind = "returned"
      /\ check_emergency_keywords(UserMessage(str_strip(last.message))) # <<>> )
        => IF Truthy(DictGet(generate(last.service), K_is_emergency, None))
           THEN result.response = DictGet(generate(last.service), K_response, None)
           ELSE EscalationInPlaceOf(
                    result.response, DictGet(generate(last.service), K_response, None),
                    context, check_emergency_keywords(UserMessage(str_strip(last.message))))

\* C23's case: the scanner matched on a message whose Result assessed a
\* moderate condition and flagged nothing; the response is the escalation
\* message naming the recorded symptoms.
C23_Witness ==
    /\ last.op = "process_message"
    /\ last.message = MSG_STROKE
    /\ last.service = ServiceText(OUT_ASSESSED)
    /\ result.kind = "returned"
    /\ Contains(result.response.s, << CALL_EMERGENCY_SERVICES >>)
    /\ Len(context.symptoms) = 2
    /\ context.state = "emergency"

\* C24: a turn without a scanner match whose Result flags an emergency or a
\* critical severity returns the Result's own text and ends in state
\* emergency with is_emergency true and severity critical, whatever state it
\* started from; the intent, the suggested state and the booking step change
\* nothing: no save is called and booking_id is what it was.
C24_FlaggedEmergencyEscalates ==
    [][ ( /\ last'.op = "process_message"
          /\ last'.service # NotCalled
          /\ check_emergency_keywords(UserMessage(str_strip(last'.message))) = <<>>
          /\ FlagsEmergency(generate(last'.service)) )
        => ( /\ result'.kind = "returned"
             /\ context'.state = "emergency"
             /\ context'.is_emergency
             /\ context'.severity = CRITICAL
             /\ result'.response = DictGet(generate(last'.service), K_response, None)
             /\ result'.save_calls = 0
             /\ context'.booking_id = context.booking_id ) ]_vars

\* C24's case: in state collecting_details, with the four appointment fields
\* filled, the Result flagged an emergency while it reported a cancellation
\* and suggested booking_confirmation; the turn ended in emergency.
C24_Witness ==
    /\ last.op = "process_message"
    /\ last.from = "collecting_details"
    /\ last.service = ServiceText(OUT_FLAG_BOOK)
    /\ \A i \in 1..Len(APPOINTMENT_KEYS) : Truthy(context.appointment[APPOINTMENT_KEYS[i]])
    /\ result.kind = "returned"
    /\ result.response = JStr(<<"c", "a", "l", "l", " ", "n", "o", "w">>)
    /\ context.state = "emergency"

\* Some appointment field of the context is empty.
SomeFieldEmpty(ctx) ==
    \E i \in 1..Len(APPOINTMENT_KEYS) : ~Truthy(ctx.appointment[APPOINTMENT_KEYS[i]])

\* The state decision of a turn from current_state with this Result on this
\* message gives booking_confirmation: nothing overrides the suggestion, and
\* the suggestion is booking_confirmation, allowed from current_state.
DecidesBooking(message, current_state, llm_result) ==
    /\ NothingOverrides(message, current_state, llm_result)
    /\ SuggestedOrCurrent(current_state, llm_result) = "booking_confirmation"

\* C25: when the state decision gives booking_confirmation and, after the
\* Result's details were merged, one of the four appointment fields is still
\* empty, the turn ends in collecting_details and returns the Result's
\* response as it is; no save is called and booking_id is what it was.
C25_IncompleteBookingCollects ==
    [][ ( /\ last'.op = "process_message"
          /\ last'.service # NotCalled
          /\ DecidesBooking(last'.message, context.state, generate(last'.service))
          /\ SomeFieldEmpty(context') )
        => ( /\ result'.kind = "returned"
             /\ context'.state = "collecting_details"
             /\ result'.response = DictGet(generate(last'.service), K_response, None)
             /\ result'.save_calls = 0
             /\ last'.saved = NotCalled
             /\ context'.booking_id = context.booking_id ) ]_vars

\* C25's case: booking_confirmation was suggested in collecting_details with
\* the name and the date known, the time and the contact number not.
C25_Witness ==
    /\ last.op = "process_message"
    /\ last.from = "collecting_details"
    /\ last.service = ServiceText(OUT_SUGGEST("booking_confirmation"))
    /\ Truthy(context.appointment.patient_name)
    /\ ~Truthy(context.appointment.contact_number)
    /\ result.kind = "returned"
    /\ result.response = JStr(<<"o", "k">>)
    /\ context.state = "collecting_details"

\* C26: a turn calls save_appointment once if its state decision gives
\* booking_confirmation and all four appointment fields are filled, and not
\* at all otherwise; a save that returned None is not repeated in that turn,
\* and the turn that follows it calls no save.
C26_OneSavePerBookingStep ==
    [][ last'.op = "process_message"
        => ( /\ result'.save_calls =
                    IF /\ last'.service # NotCalled
                       /\ DecidesBooking(last'.message, context.state, generate(last'.service))
                       /\ ~SomeFieldEmpty(context')
                    THEN 1 ELSE 0
             /\ (last.op = "process_message" /\ last.saved = None)
                    => result'.save_calls = 0 ) ]_vars

\* C26's case: the save of a complete booking returned None and the turn
\* ended in completed; the next turn, with the four fields still filled,
\* called no save.
C26_Witness ==
    /\ last.op = "process_message"
    /\ last.from = "completed"
    /\ last.saved = NotCalled
    /\ result.save_calls = 0
    /\ context.booking_id = None
    /\ ~SomeFieldEmpty(context)

\* The states one further turn can end in from the context ctx, over the
\* Results of SpecFlow.
StatesAfterOneTurn(ctx) ==
    { process_message(MSG_HELLO, ctx, service, None, ctx.symptoms).ctx.state :
        service \in FlowOutcomes }

\* C27 as stated: neither completed nor emergency is terminal; from each of
\* them a single further turn can end in greeting and a single further turn
\* can end in symptom_collection.
C27_BothLoopBackToBoth ==
    LET Loops(after) == "greeting" \in after /\ "symptom_collection" \in after
    IN  context.state \in { "completed", "emergency" } => Loops(StatesAfterOneTurn(context))

\* C27 as amended: neither completed nor emergency is terminal; from
\* completed a single further turn can end in greeting and can end in
\* symptom_collection; from emergency a single further turn can end in
\* greeting, and none ends in symptom_collection.
C27_CompletedAndEmergencyLoopBack ==
    LET FromCompleted(after) == "greeting" \in after /\ "symptom_collection" \in after
        FromEmergency(after) == "greeting" \in after /\ "symptom_collection" \notin after
    IN  /\ context.state = "completed" => FromCompleted(StatesAfterOneTurn(context))
        /\ context.state = "emergency" => FromEmergency(StatesAfterOneTurn(context))

\* C27's case: a turn that started in emergency ended in greeting.
C27_Witness ==
    /\ last.op = "process_message"
    /\ last.from = "emergency"
    /\ last.service = ServiceText(OUT_SUGGEST("greeting"))
    /\ result.kind = "returned"
    /\ context.state = "greeting"

\* C28: the final pass applies the validator's leakage test: it replaces
\* every text that _looks_like_json classifies as a structured payload (one
\* that starts with a brace or a bracket and parses, or that holds two of the
\* five field-name signatures), and the text it returns is never one that
\* _looks_like_json classifies as structured.
C28_FinalPassAppliesGuard ==
    result.kind = "sanitized"
        => /\ _looks_like_json(last.text) => result.value # JStr(last.text)
           /\ IsStr(result.value)
           /\ ~_looks_like_json(result.value.s)

\* The validator replaces the response of this parsed payload: it is an
\* object with some field, and its response is missing, empty, or a text
\* that looks like a payload.
GuardReplaces(parsed) ==
    LET Leaks(response_text) ==
            \/ ~Truthy(response_text)
            \/ IsStr(response_text) /\ _looks_like_json(response_text.s)
    IN  /\ IsDict(parsed)
        /\ Truthy(parsed)
        /\ Leaks(DictGet(parsed, K_response, None))

\* The response is the substitute C29's priority gives for the payload.
SubstituteByPriority(response, parsed) ==
    IF Truthy(DictGet(parsed, K_is_emergency, None))
    THEN response = JStr(EMERGENCY_NOTICE)
    ELSE IF Truthy(DictGet(parsed, K_recommended_department, None))
    THEN /\ IsStr(response)
         /\ StartsWith(response.s, << "Based on " >>)
         /\ Contains(response.s,
                     << ", I recommend visiting **" >>
                     \o DictGet(parsed, K_recommended_department, None).s
                     \o << "**. Assessed severity: **" >>
                     \o (IF Truthy(DictGet(parsed, K_severity, None))
                         THEN DictGet(parsed, K_severity, None).s
                         ELSE << "under review" >>))
    ELSE response = JStr(CLARIFICATION_REQUEST)

\* C29: when the validator replaces the response of a payload, the
\* substitute is the emergency notice if the payload flags an emergency,
\* with or without a department; otherwise the recommendation naming the
\* department and the severity if it has a department; otherwise the
\* clarification request.
C29_SubstituteByPriority ==
    (result.kind = "generated" /\ GuardReplaces(ParseAttempts(last.service.text)))
        => SubstituteByPriority(DictGet(result.value, K_response, None),
                                ParseAttempts(last.service.text))

\* C29's case: the payload had an empty response, an emergency flag and a
\* department, and the Result's response is the emergency notice.
C29_Witness ==
    /\ result.kind = "generated"
    /\ last.service =
          ServiceText(<<"{", "\"", "r", "e", "s", "p", "o", "n", "s", "e", "\"", ":", " ", "\"", "\"", ",", " ", "\"", "i", "s", "_", "e", "m", "e", "r", "g", "e", "n", "c", "y", "\"", ":", " ", "t", "r", "u", "e", ",", " ", "\"", "r", "e", "c", "o", "m", "m", "e", "n", "d", "e", "d", "_", "d", "e", "p", "a", "r", "t", "m", "e", "n", "t", "\"", ":", " ", "\"", "E", "N", "T", "\"", "}">>)
    /\ DictGet(result.value, K_recommended_department, None) = JStr(<<"E", "N", "T">>)
    /\ DictGet(result.value, K_response, None) = JStr(EMERGENCY_NOTICE)

\* The message as the bound cuts it: at most MAX_MSG_CHARS characters of the
\* stripped text, with the marker after them when some were cut away.
CutToBound(stripped) ==
    IF Len(stripped) > MAX_MSG_CHARS
    THEN SubSeq(stripped, 1, MAX_MSG_CHARS) \o TRUNCATION_MARKER
    ELSE stripped

\* C30: the user entry a turn appends to history holds the message cut to
\* the bound, with the marker if it was longer, and so never more than the
\* bound and the marker together; the scan sees that text only: with a
\* Result that flags nothing, the turn escalates exactly when the scanner
\* finds a phrase in the cut text.
C30_MessageCutBeforeUse ==
    (last.op = "process_message" /\ last.service # NotCalled /\ result.kind = "returned")
        => /\ result.appended[1] = UserEntry(CutToBound(str_strip(last.message)))
           /\ Len(result.appended[1].content) <= MAX_MSG_CHARS + Len(TRUNCATION_MARKER)
           /\ ~FlagsEmergency(generate(last.service))
                => ( Contains(result.response.s, << CALL_EMERGENCY_SERVICES >>)
                        <=> check_emergency_keywords(CutToBound(str_strip(last.message)))
                                # <<>> )

\* C30's case: a message of 2000 characters followed by " stroke" was stored
\* as 2000 characters and the marker, and the turn did not escalate.
C30_Witness ==
    /\ last.op = "process_message"
    /\ last.message = MSG_LONG
    /\ result.kind = "returned"
    /\ Len(result.appended[1].content) = MAX_MSG_CHARS + Len(TRUNCATION_MARKER)
    /\ ~Contains(result.response.s, << CALL_EMERGENCY_SERVICES >>)
    /\ ~context.is_emergency

\* The scanner matches the message of the latest call, or the Result of that
\* call flags an emergency or a critical severity.
EmergencyLogicActs(record) ==
    /\ record.op = "process_message"
    /\ record.service # NotCalled
    /\ \/ check_emergency_keywords(UserMessage(str_strip(record.message))) # <<>>
       \/ FlagsEmergency(generate(record.service))

\* C31: is_emergency changes from false to true only in a turn in which the
\* scanner matched or the Result flagged an emergency or a critical
\* severity; in every other turn (one that adopts a suggested state, one
\* that switches by intent, one that runs the booking step) is_emergency is
\* what it was before the turn.
C31_FlagSetOnlyByEmergencyLogic ==
    [][ /\ (~context.is_emergency /\ context'.is_emergency) => EmergencyLogicActs(last')
        /\ (last'.op = "process_message" /\ ~EmergencyLogicActs(last'))
              => context'.is_emergency = context.is_emergency ]_vars

\* C31's case: the first turn of a conversation, without a scanner match,
\* whose Result flagged an emergency, raised the flag.
C31_Witness ==
    /\ last.op = "process_message"
    /\ last.message = MSG_HELLO
    /\ last.service = ServiceText(OUT_EMERGENCY)
    /\ Len(context.history) = 2
    /\ context.is_emergency
    /\ context.state = "emergency"

\* The symptoms, the department and the appointment fields that llm_result
\* carries are in the context "after" of a turn that started with "before".
MergedInto(before, after, llm_result) ==
    LET Symptoms(new_symptoms) ==
            Truthy(new_symptoms)
                => SymptomSet(after) = SymptomSet(before) \cup SymptomItems(new_symptoms).v
        Department(llm_department) ==
            Truthy(llm_department) => after.department = llm_department
        Details(collected_info) ==
            \A i \in 1..Len(APPOINTMENT_KEYS) :
                ~GivesNoValue(llm_result, APPOINTMENT_KEYS[i])
                    => after.appointment[APPOINTMENT_KEYS[i]]
                        = DictGet(collected_info, AppointmentKeySpelling[APPOINTMENT_KEYS[i]], None)
    IN  /\ Symptoms(DictGet(llm_result, K_extracted_symptoms, JList(<<>>)))
        /\ Department(DictGet(llm_result, K_recommended_department, None))
        /\ Details(DictGet(llm_result, K_collected_info, JDict(<<>>)))

C33_NeverLeftInBookingConfirmation ==
    /\ context.state # "booking_confirmation"
    /\ last.op = "process_message"
          => /\ last.from # "booking_confirmation"
             /\ ( /\ last.service # NotCalled
                  /\ DecidesBooking(last.message, last.from, generate(last.service)) )
                   => context.state \in { "collecting_details", "completed" }

\* C33's case: booking_confirmation was suggested in collecting_details with
\* the four fields filled; the booking step called the save and the turn
\* ended in completed.
C33_Witness ==
    /\ last.op = "process_message"
    /\ last.from = "collecting_details"
    /\ last.service = ServiceText(OUT_SUGGEST("booking_confirmation"))
    /\ ~SomeFieldEmpty(context)
    /\ result.kind = "returned"
    /\ result.save_calls = 1
    /\ context.state = "completed"

\* C34: in a conversation from a fresh context the history never holds more
\* user entries than half of the MAX_HISTORY entries it is trimmed to, which
\* is fewer than MAX_CONVERSATION_TURNS; so no call is answered with the
\* turn-limit message.
C34_UserEntriesWithinHalfWindow ==
    /\ 2 * TurnCount(context) <= MAX_HISTORY
    /\ MAX_HISTORY < 2 * MAX_CONVERSATION_TURNS
    /\ result.response # JStr(TURN_LIMIT_MESSAGE)

\* C35: in a conversation from a fresh context, a context in state emergency
\* has is_emergency true and severity critical, however the state was
\* entered (by the scanner, by a flag of the Result, by a suggestion of the
\* service) and in every later turn that stays in emergency.
C35_EmergencyStateIsFlagged ==
    context.state = "emergency" => (context.is_emergency /\ context.severity = CRITICAL)

\* C36: a turn that starts in state emergency ends in emergency or in
\* greeting, whatever intent and whatever suggestion the Result carries; it
\* ends in greeting only when the Result suggests greeting, flags nothing
\* and the scanner matched nothing.
C36_EmergencyLeadsOnlyToGreeting ==
    [][ (last'.op = "process_message" /\ context.state = "emergency")
        => ( /\ context'.state \in { "emergency", "greeting" }
             /\ context'.state = "greeting"
                  => /\ last'.service # NotCalled
                     /\ Suggested(generate(last'.service)) = "greeting"
                     /\ ~FlagsEmergency(generate(last'.service))
                     /\ check_emergency_keywords(UserMessage(str_strip(last'.message)))
                            = <<>> ) ]_vars

\* C36's case: in state emergency the Result reported a cancellation, which
\* leads to completed where it is a switch; the turn ended in emergency.
C36_Witness ==
    /\ last.op = "process_message"
    /\ last.from = "emergency"
    /\ last.service = ServiceText(OUT_INTENT(<<"c", "a", "n", "c", "e", "l", "l", "a", "t", "i", "o", "n">>))
    /\ result.kind = "returned"
    /\ context.state = "emergency"

\* C37: in a conversation from a fresh context save_appointment is never
\* called on a context with is_emergency true or severity critical: no
\* appointment of an emergency case is stored.
C37_NoSaveInEmergencyCase ==
    (last.op = "process_message" /\ result.save_calls > 0)
        => (~context.is_emergency /\ context.severity # CRITICAL)

\* The intent of llm_result conflicts with current_state, and next_state is
\* the state that conflict forces.
ForcedBySwitch(current_state, llm_result, next_state) ==
    LET Switch(llm_intent) ==
            /\ IsStr(llm_intent)
            /\ current_state \in ConflictStates(llm_intent.s)
            /\ next_state = ForcedState(llm_intent.s)
    IN  Switch(DictGet(llm_result, K_intent, None))

\* next_state is what the booking step makes of booking_confirmation, itself
\* allowed from current_state.
ThroughBooking(current_state, next_state) ==
    /\ is_valid_transition(current_state, "booking_confirmation")
    /\ next_state \in { "collecting_details", "completed" }
    /\ is_valid_transition("booking_confirmation", next_state)

\* C38 as stated: every change of state a turn makes respects the transition
\* table: the state after a call of process_message is the state before it
\* or one that is_valid_transition allows from it, the changes made by an
\* intent switch and by the booking step included.
C38_EveryChangeRespectsTable ==
    [][ last'.op = "process_message"
        => \/ context'.state = context.state
           \/ is_valid_transition(context.state, context'.state) ]_vars

\* C38 as amended: the state after a call of process_message is the state
\* before it, or one that is_valid_transition allows from it, or the state an
\* intent switch detected in that turn forces, whatever the table says, or
\* the state the booking step moves on to (collecting_details or completed,
\* both allowed from booking_confirmation) after a decision for
\* booking_confirmation that the table allows.
C38_ChangesByTableSwitchOrBooking ==
    [][ last'.op = "process_message"
        => \/ context'.state = context.state
           \/ is_valid_transition(context.state, context'.state)
           \/ /\ last'.service # NotCalled
              /\ ForcedBySwitch(context.state, generate(last'.service), context'.state)
           \/ /\ last'.service # NotCalled
              /\ DecidesBooking(last'.message, context.state, generate(last'.service))
              /\ ThroughBooking(context.state, context'.state) ]_vars

\* C38's case: in state collecting_details the Result reported a
\* cancellation and the turn ended in completed, which the table does not
\* allow from collecting_details.
C38_Witness ==
    /\ last.op = "process_message"
    /\ last.from = "collecting_details"
    /\ last.service = ServiceText(OUT_INTENT(<<"c", "a", "n", "c", "e", "l", "l", "a", "t", "i", "o", "n">>))
    /\ result.kind = "returned"
    /\ context.state = "completed"
    /\ ~is_valid_transition("collecting_details", "completed")

\* C39: every call of process_message that passes the two guards appends one
\* user entry and then one assistant entry to the history, the assistant
\* entry holding the response the call returns; so in a conversation from a
\* fresh context the history alternates between user and assistant entries
\* and ends with an assistant entry.
C39_OneExchangePerTurn ==
    /\ (last.op = "process_message" /\ last.service # NotCalled)
          => /\ Len(result.appended) = 2
             /\ result.appended[1].role = "user"
             /\ result.appended[2].role = "assistant"
             /\ result.appended[2].content = result.response
    /\ \A i \in 1..(Len(context.history) - 1) : context.history[i] # context.history[i + 1]
    /\ Len(context.history) > 0 => context.history[Len(context.history)] = "assistant"
====
